---- MODULE Spec2Model ----
(***************************************************************************)
(* The WebSocket protocol engine of kate (kate/core/websocket.py): the     *)
(* frame read loop, message reassembly, the close handshake, abort, and    *)
(* the keepalive task of one connection, as asyncio schedules them.  A     *)
(* task runs without interruption between two awaits that can suspend;     *)
(* the variable running holds the task that is between two such awaits.    *)
(***************************************************************************)
EXTENDS Integers, Sequences, FiniteSets, TLC

\* ------------------------------------------------------------------ bounds
MaxEvents == 2        \* things that happen to one connection: frames
                      \* received, keepalive pings, application calls and
                      \* the loss of the stream
MaxPayloadLen == 4    \* longest payload the peer sends
MaxDelegateCalls == 1 \* calls the application makes (close, write, ping)
MaxMessageSize == 3   \* params.max_message_size of the connection
MaxMessages == 2      \* messages sent through one compressor and decompressor
MaxDeviations == 2    \* header fields in which a request differs from a
                      \* plain upgrade request

\* ------------------------------------------------------------ Python None
NoneNum == -1         \* None where a number is expected
NoneBytes == <<-1>>   \* None where bytes or a string are expected

\* --------------------------------------------------------------- opcodes
OpContinuation == 0
OpText == 1
OpBinary == 2
OpReserved == 3       \* an opcode RFC 6455 does not define (data range)
OpClose == 8
OpPing == 9
OpPong == 10
OpReservedControl == 11

IsControl(opcode) == opcode >= 8

\* ------------------------------------------------------------- byte tools
RECURSIVE Repeat(_, _)
Repeat(b, n) == IF n <= 0 THEN <<>> ELSE <<b>> \o Repeat(b, n - 1)

Drop(s, n) == IF n >= Len(s) THEN <<>> ELSE SubSeq(s, n + 1, Len(s))

Take(s, n) == IF n >= Len(s) THEN s ELSE SubSeq(s, 1, n)

RECURSIVE BitXor(_, _, _)
BitXor(a, b, bits) ==
    IF bits = 0 THEN 0
    ELSE (((a % 2) + (b % 2)) % 2) + (2 * BitXor(a \div 2, b \div 2, bits - 1))

\* a mask that uses the first byte of the key for every byte
WebsocketMaskFirstKeyByte(mask, data) ==
    [i \in 1..Len(data) |-> BitXor(data[i], mask[1], 8)]

\* _websocket_mask_python
WebsocketMask(mask, data) ==
    [i \in 1..Len(data) |-> BitXor(data[i], mask[((i - 1) % 4) + 1], 8)]

\* bytes.decode("utf-8"): the code points, or NoneBytes for UnicodeDecodeError
IsCont(b) == b >= 128 /\ b <= 191

RECURSIVE Utf8Decode(_)
Utf8Decode(bs) ==
    IF bs = <<>> THEN <<>>
    ELSE LET b == bs[1]
             n == IF b < 128 THEN 1
                  ELSE IF b >= 194 /\ b <= 223 THEN 2
                  ELSE IF b >= 224 /\ b <= 239 THEN 3
                  ELSE IF b >= 240 /\ b <= 244 THEN 4
                  ELSE 0
             ok == /\ n > 0
                   /\ Len(bs) >= n
                   /\ \A i \in 2..n : IsCont(bs[i])
                   /\ (b = 224 => bs[2] >= 160)
                   /\ (b = 237 => bs[2] <= 159)
                   /\ (b = 240 => bs[2] >= 144)
                   /\ (b = 244 => bs[2] <= 143)
             cp == IF n = 1 THEN b
                   ELSE IF n = 2 THEN ((b - 192) * 64) + (bs[2] - 128)
                   ELSE IF n = 3 THEN ((b - 224) * 4096) + ((bs[2] - 128) * 64)
                                      + (bs[3] - 128)
                   ELSE ((b - 240) * 262144) + ((bs[2] - 128) * 4096)
                        + ((bs[3] - 128) * 64) + (bs[4] - 128)
             rest == IF ok THEN Utf8Decode(Drop(bs, n)) ELSE NoneBytes
         IN IF ~ok \/ rest = NoneBytes THEN NoneBytes ELSE <<cp>> \o rest

\* struct.pack(">H", code) and struct.unpack(">H", data[:2])[0]
Pack16(code) == <<code \div 256, code % 256>>

Unpack16(data) == (data[1] * 256) + data[2]

\* struct.pack("!H", n) and struct.pack("!Q", n): k bytes, most significant
\* byte first
RECURSIVE PackBE(_, _)
PackBE(n, k) == IF k = 0 THEN <<>> ELSE PackBE(n \div 256, k - 1) \o <<n % 256>>

\* struct.unpack("!H", data)[0] and struct.unpack("!Q", data)[0]
RECURSIVE UnpackBE(_)
UnpackBE(data) ==
    IF data = <<>> THEN 0
    ELSE (UnpackBE(SubSeq(data, 1, Len(data) - 1)) * 256) + data[Len(data)]

EncodeLengthShortTo126(data_len, mask_bit) ==
    IF data_len <= 126 THEN <<data_len + mask_bit>>
    ELSE IF data_len <= 65535 THEN <<126 + mask_bit>> \o PackBE(data_len, 2)
    ELSE <<127 + mask_bit>> \o PackBE(data_len, 8)

\* _write_frame: the bytes of the header after its first byte, for a payload
\* of data_len bytes; mask_bit is 0x80 or 0
EncodeLength(data_len, mask_bit) ==
    IF data_len < 126 THEN <<data_len + mask_bit>>
    ELSE IF data_len <= 65535 THEN <<126 + mask_bit>> \o PackBE(data_len, 2)
    ELSE <<127 + mask_bit>> \o PackBE(data_len, 8)

\* _receive_frame: the payload length read from the same bytes
DecodeLength(header) ==
    LET payloadlen == header[1] % 128
    IN  IF payloadlen < 126 THEN payloadlen
        ELSE IF payloadlen = 126 THEN UnpackBE(SubSeq(header, 2, 3))
        ELSE UnpackBE(SubSeq(header, 2, 9))

\* ------------------------------------------------------------- text tools
\* header values are sequences of character codes
\* str.lower()
LowerChar(c) == IF c >= 65 /\ c <= 90 THEN c + 32 ELSE c

Lower(s) == [i \in 1..Len(s) |-> LowerChar(s[i])]

\* str.find for a set of characters: the first position, or 0
Find(s, cs) ==
    IF \E i \in 1..Len(s) : s[i] \in cs
    THEN CHOOSE i \in 1..Len(s) :
            s[i] \in cs /\ \A j \in 1..(i - 1) : s[j] \notin cs
    ELSE 0

\* str.strip()
RECURSIVE Strip(_)
Strip(s) ==
    IF s # <<>> /\ Head(s) = 32 THEN Strip(Tail(s))
    ELSE IF s # <<>> /\ s[Len(s)] = 32 THEN Strip(SubSeq(s, 1, Len(s) - 1))
    ELSE s

\* str.split(sep)
RECURSIVE Split(_, _)
Split(s, sep) ==
    IF Find(s, {sep}) = 0 THEN <<s>>
    ELSE <<Take(s, Find(s, {sep}) - 1)>> \o Split(Drop(s, Find(s, {sep})), sep)

IsAlpha(c) == (c >= 65 /\ c <= 90) \/ (c >= 97 /\ c <= 122)

IsSchemeChar(c) == IsAlpha(c) \/ (c >= 48 /\ c <= 57) \/ c \in {43, 45, 46}

\* urlparse(url).netloc: what follows "//" after the scheme, up to the
\* first "/", "?" or "#"
UrlNetloc(url) ==
    LET colon == Find(url, {58})
        scheme == /\ colon > 1
                  /\ IsAlpha(url[1])
                  /\ \A j \in 1..(colon - 1) : IsSchemeChar(url[j])
        rest == IF scheme THEN Drop(url, colon) ELSE url
        loc == Drop(rest, 2)
    IN IF Take(rest, 2) = <<47, 47>>
       THEN IF Find(loc, {47, 63, 35}) = 0 THEN loc
            ELSE Take(loc, Find(loc, {47, 63, 35}) - 1)
       ELSE <<>>


\* ------------------------------------------------- zlib raw DEFLATE stream
(* zlib is outside the repository.  Its stream is modelled by a small      *)
(* run-length format with the same interface: a byte other than 0 is a    *)
(* literal, <<0, n, b>> with n >= 1 is n copies of b, and <<0, 0, 255,     *)
(* 255>> is the empty stored block a sync flush ends with.  decompress     *)
(* stops once max_length bytes are out and leaves the input it did not     *)
(* take in unconsumed_tail; blocks without output are still taken.         *)
SyncMarker == <<0, 0, 255, 255>>

RECURSIVE InflateFrom(_, _, _)
InflateFrom(input, out, max_length) ==
    IF input = <<>> THEN [out |-> out, tail |-> <<>>, err |-> FALSE]
    ELSE IF Take(input, 4) = SyncMarker
         THEN InflateFrom(Drop(input, 4), out, max_length)
    ELSE IF input[1] = 0 /\ Len(input) < 3
         THEN [out |-> out, tail |-> <<>>, err |-> FALSE]
    ELSE IF input[1] = 0 /\ input[2] = 0
         THEN [out |-> out, tail |-> <<>>, err |-> TRUE]
    ELSE LET used == IF input[1] = 0 THEN 3 ELSE 1
             count == IF input[1] = 0 THEN input[2] ELSE 1
             byte == IF input[1] = 0 THEN input[3] ELSE input[1]
             room == max_length - Len(out)
         IN IF max_length > 0 /\ count > room
            THEN [out |-> out \o Repeat(byte, room),
                  tail |-> IF room = 0 THEN input ELSE Drop(input, used),
                  err |-> FALSE]
            ELSE InflateFrom(Drop(input, used), out \o Repeat(byte, count),
                             max_length)

\* decompressobj.decompress(data, max_length) of a fresh or flushed context
ZlibDecompress(data, max_length) == InflateFrom(data, <<>>, max_length)

\* the number of equal bytes data starts with
RunOf(data) ==
    CHOOSE n \in 1..Len(data) :
        /\ \A i \in 1..n : data[i] = data[1]
        /\ n = Len(data) \/ data[n + 1] # data[1]

\* compressobj.compress(data): runs and zero bytes become <<0, n, b>>
RECURSIVE RunLength(_)
RunLength(data) ==
    IF data = <<>> THEN <<>>
    ELSE LET n == RunOf(data)
         IN (IF n = 1 /\ data[1] # 0 THEN <<data[1]>> ELSE <<0, n, data[1]>>)
            \o RunLength(Drop(data, n))

\* compressobj.compress(data) + compressobj.flush(Z_SYNC_FLUSH)
ZlibCompress(data) == RunLength(data) \o SyncMarker

\* _PerMessageDeflateCompressor.compress: the sync marker is cut off
CompressorCompress(data) ==
    SubSeq(ZlibCompress(data), 1, Len(ZlibCompress(data)) - 4)

\* a decompressor that returns what fits instead of raising
DecompressorDecompressTruncating(data) ==
    LET z == ZlibDecompress(data \o SyncMarker, MaxMessageSize)
    IN IF z.err THEN [exc |-> "zlib.error", result |-> <<>>]
       ELSE [exc |-> "", result |-> z.out]

\* _PerMessageDeflateDecompressor.decompress: the bytes, or a record naming
\* the exception raised
DecompressorDecompress(data) ==
    LET z == ZlibDecompress(data \o SyncMarker, MaxMessageSize)
    IN IF z.err THEN [exc |-> "zlib.error", result |-> <<>>]
       ELSE IF z.tail # <<>>
       THEN [exc |-> "_DecompressTooLargeError", result |-> <<>>]
       ELSE [exc |-> "", result |-> z.out]

\* ------------------------------------------------------ the peer's frames
HugeLen == 65536      \* a length announced in the 64-bit extended field
MaskKey == <<1, 2, 3, 4>>

\* payloads of uncompressed data frames: text, halves of a two-byte UTF-8
\* sequence, and the longest payload
PlainPayloads ==
    {p \in {<<65>>, <<195>>, <<169>>, Repeat(65, MaxPayloadLen)} :
        Len(p) <= MaxPayloadLen}

\* payloads of compressed data frames: "AA", more than max_message_size
\* bytes, a literal, and a stream zlib rejects
CompressedPayloads ==
    {p \in {<<0, 2, 65>>, <<0, MaxMessageSize + 1, 65>>, <<65>>, <<0>>} :
        Len(p) <= MaxPayloadLen}

PingPayloads == {<<>>, <<65>>}

\* close frames: no code, half a code, 1001, 1001 with reason "A", and
\* 1001 with a reason that is not UTF-8
ClosePayloads ==
    {p \in {<<>>, <<3>>, <<3, 233>>, <<3, 233, 65>>, <<3, 233, 255>>} :
        Len(p) <= MaxPayloadLen}

Frame(fin, rsv1, rsv23, opcode, masked, len7, declared, payload) ==
    [fin |-> fin, rsv1 |-> rsv1, rsv23 |-> rsv23, opcode |-> opcode,
     masked |-> masked, len7 |-> len7, declared |-> declared,
     payload |-> IF masked THEN WebsocketMask(MaskKey, payload) ELSE payload]

Short(fin, rsv1, opcode, masked, p) ==
    Frame(fin, rsv1, FALSE, opcode, masked, Len(p), Len(p), p)

DataFrames ==
    {Short(fin, FALSE, opcode, FALSE, p) :
        fin \in BOOLEAN, opcode \in {OpContinuation, OpText, OpBinary},
        p \in PlainPayloads}
    \cup {Short(fin, TRUE, opcode, FALSE, <<0, 2, 65>>) :
        fin \in BOOLEAN, opcode \in {OpText, OpBinary}}
    \cup {Short(fin, TRUE, OpBinary, FALSE, p) :
        fin \in BOOLEAN, p \in CompressedPayloads}
    \cup {Short(fin, FALSE, OpContinuation, FALSE, <<>>) : fin \in BOOLEAN}
    \cup {Short(TRUE, TRUE, OpContinuation, FALSE, <<>>)}
    \cup {Short(fin, FALSE, OpReserved, FALSE, <<65>>) : fin \in BOOLEAN}

MaskedFrames ==
    {Short(fin, FALSE, OpText, TRUE, <<65>>) : fin \in BOOLEAN}
    \cup {Short(TRUE, FALSE, OpContinuation, TRUE, <<65>>),
          Short(TRUE, FALSE, OpBinary, TRUE, <<>>)}

ControlFrames ==
    {Short(TRUE, FALSE, opcode, FALSE, p) :
        opcode \in {OpPing, OpPong}, p \in PingPayloads}
    \cup {Short(TRUE, FALSE, OpClose, FALSE, p) : p \in ClosePayloads}
    \cup {Short(FALSE, FALSE, OpPing, FALSE, <<>>),
          Short(FALSE, FALSE, OpClose, FALSE, <<>>),
          Short(TRUE, FALSE, OpReservedControl, FALSE, <<>>),
          Short(TRUE, TRUE, OpPing, FALSE, <<>>),
          Short(TRUE, TRUE, OpClose, FALSE, <<3, 233>>)}

\* frames with RSV2 or RSV3 set: nothing after the header is looked at
ReservedBitFrames ==
    {Frame(TRUE, rsv1, TRUE, OpText, FALSE, 0, 0, <<>>) : rsv1 \in BOOLEAN}

\* frames that announce their length in an extended field
ExtendedFrames ==
    {Frame(TRUE, FALSE, FALSE, opcode, FALSE, 126, 1, <<65>>) :
        opcode \in {OpBinary, OpPing}}
    \cup {Frame(TRUE, FALSE, FALSE, opcode, FALSE, 127, HugeLen, <<>>) :
        opcode \in {OpBinary, OpPing}}

Frames ==
    DataFrames \cup MaskedFrames \cup ControlFrames \cup ReservedBitFrames
    \cup ExtendedFrames

NoFrame == Frame(FALSE, FALSE, FALSE, OpContinuation, FALSE, 0, 0, <<>>)


\* ---------------------------------------------------- the upgrade request
TextWebsocket == <<119, 101, 98, 115, 111, 99, 107, 101, 116>>  \* "websocket"
TextUpgrade == <<117, 112, 103, 114, 97, 100, 101>>           \* "upgrade"

Upgrades ==
    {NoneBytes, TextWebsocket,
     <<87, 101, 98, 83, 111, 99, 107, 101, 116>>,     \* "WebSocket"
     <<104, 50, 99>>}                                 \* "h2c"

Connections ==
    {NoneBytes,
     <<85, 112, 103, 114, 97, 100, 101>>,             \* "Upgrade"
     <<107, 101, 101, 112, 45, 97, 108, 105, 118, 101, 44, 32,
       85, 112, 103, 114, 97, 100, 101>>,             \* "keep-alive, Upgrade"
     <<99, 108, 111, 115, 101>>}                      \* "close"

Origins ==
    {NoneBytes,
     <<104, 116, 116, 112, 58, 47, 47, 97, 46, 98>>,  \* "http://a.b"
     <<104, 116, 116, 112, 58, 47, 47, 65, 46, 98>>,  \* "http://A.b"
     <<104, 116, 116, 112, 58, 47, 47, 99, 46, 100>>} \* "http://c.d"

Hosts == {NoneBytes, <<>>, <<97, 46, 98>>, <<65, 46, 98>>}  \* "", "a.b", "A.b"

Keys == {NoneBytes, <<>>, <<107>>}

Versions ==
    {NoneBytes, <<>>, <<54>>, <<55>>, <<56>>, <<49, 51>>}   \* 6, 7, 8, 13

SupportedVersions == {<<55>>, <<56>>, <<49, 51>>}

\* Sec-WebSocket-Extensions as the client sends it: the extensions offered,
\* each with its parameters. A parameter written without "=" has the value
\* "None"; quoted tells whether the value stands between double quotes.
Param(k, v, quoted) == [k |-> k, v |-> v, quoted |-> quoted]

Offer(name, params) == [name |-> name, params |-> params]

\* no Sec-WebSocket-Extensions header
NoExtensions == Offer("None", {})

ExtensionOffers ==
    {<<>>,
     <<Offer("permessage-deflate", {})>>,
     <<Offer("permessage-deflate", {Param("client_max_window_bits", "10", FALSE), Param("unknown_parameter", "1", FALSE)})>>,
     <<Offer("x-webkit-deflate-frame", {})>>}

Request(upgrade, connection, origin, sec_origin, host, key, version, extensions, options) ==
    [upgrade |-> upgrade, connection |-> connection, origin |-> origin,
     sec_origin |-> sec_origin, host |-> host, key |-> key,
     version |-> version, extensions |-> extensions,
     compression_options |-> options]

\* a request every check accepts, on a handler without compression options
PlainRequest ==
    Request(TextWebsocket, <<85, 112, 103, 114, 97, 100, 101>>, NoneBytes,
            NoneBytes, <<97, 46, 98>>, <<107>>, <<49, 51>>, <<>>, "None")

\* the request once the handshake is answered and the headers are no
\* longer looked at
NoRequest ==
    Request(NoneBytes, NoneBytes, NoneBytes, NoneBytes, NoneBytes, NoneBytes,
            NoneBytes, <<>>, "None")

RequestFields == DOMAIN PlainRequest

Deviations(r) == Cardinality({f \in RequestFields : r[f] # PlainRequest[f]})

Requests ==
    {r \in {Request(u, c, o, so, h, k, v, e, opt) :
                u \in Upgrades, c \in Connections, o \in Origins,
                so \in Origins, h \in Hosts, k \in Keys, v \in Versions,
                e \in ExtensionOffers, opt \in {"None", "{}"}} :
        Deviations(r) <= MaxDeviations}

\* ------------------------------------------------------------------ state
Tasks == {"R", "K", "D"}   \* read loop, keepalive task, application caller

VARIABLES
    request,    \* the headers of the upgrade request and the handler's
                \* compression options, until the handshake is answered
    codec,      \* the inputs and results of the codec functions
    params,     \* _WebSocketParams and whether permessage-deflate was agreed
    conn,       \* the fields of WebSocketProtocol13
    handler,    \* the fields of WebSocketHandler
    writer,     \* the asyncio stream: is_closing(), the peer's side, the
                \* status line written by the handshake
    pc,         \* per task, the stack of code positions (innermost first)
    running,    \* the task between two suspending awaits, or "none"
    frame,      \* _receive_frame's locals: the frame being received
    msg,        \* _handle_message's arguments
    wire,       \* the frames written to the stream, in order
    delivered,  \* the on_message calls begun, in order
    counts,     \* frames read, pongs among them, pings sent, application
                \* calls, on_close calls
    gmsg,       \* the fragmented message in progress, as the peer sent it
    obs,        \* the frame being processed as the peer sent it, and what
                \* was observed while it was processed
    call        \* the application's latest write_message or ping call:
                \* whether the connection was usable when it was made, the
                \* frames it wrote, and how it ended

vars == <<request, codec, params, conn, handler, writer, pc, running, frame, msg, wire,
          delivered, counts, gmsg, obs, call>>

\* (ping_interval, ping_timeout) settings: keepalive off, keepalive without
\* a timeout, keepalive with a timeout longer than the interval
PingSettings == {<<NoneNum, NoneNum>>, <<1, 0>>, <<1, 2>>}

L(l) == [l |-> l, code |-> NoneNum, reason |-> "None"]

NoMsg == [opcode |-> OpContinuation, data |-> <<>>]

NoGmsg == [active |-> FALSE, opcode |-> OpContinuation, rsv1 |-> FALSE,
           concat |-> <<>>, interleaved |-> FALSE, fragments |-> 0]

NoCodec == [op |-> "none", w |-> 15, persistent |-> FALSE, refuses8 |-> FALSE,
            cwindow |-> NoneBytes, dwindow |-> NoneBytes, key |-> <<>>,
            sent |-> <<>>, data |-> <<>>, out |-> <<>>, exc |-> "", n |-> 0,
            opcode |-> NoneNum, len |-> NoneNum]

NoCall == [kind |-> "none", unusable |-> FALSE, written |-> 0,
           result |-> "none"]

NoObs == [busy |-> FALSE, role |-> "none", oversize |-> FALSE, viols |-> {},
          inflate |-> "ok", expect |-> NoMsg, interleaved |-> FALSE,
          fragments |-> 0, wire0 |-> 0, delivered0 |-> 0,
          size_checked |-> FALSE, payload_read |-> FALSE, handled |-> FALSE,
          closable |-> FALSE, eof |-> FALSE, rsv1 |-> FALSE]

\* WebSocketHandler.__init__, and the fields WebSocketProtocol.__init__ and
\* WebSocketProtocol13.__init__ give the protocol, at the point where the
\* server calls get()
Unconnected ==
    /\ conn = [client_terminated |-> FALSE, server_terminated |-> FALSE,
               fragmented_message_buffer |-> NoneBytes,
               fragmented_message_opcode |-> NoneNum,
               frame_compressed |-> FALSE, frame_mask |-> NoneBytes,
               received_pong |-> FALSE, close_code |-> NoneNum,
               close_reason |-> NoneBytes, ping_coroutine |-> FALSE,
               must_cancel |-> FALSE]
    /\ handler = [ws_connection |-> FALSE, on_close_called |-> FALSE,
                  close_code |-> NoneNum, close_reason |-> NoneBytes,
                  open |-> "no"]
    /\ writer = [closing |-> FALSE, peer |-> "open", status |-> 0,
                 responses |-> 0, headers |-> {}, extensions |-> NoExtensions]
    /\ pc = [t \in Tasks |-> IF t = "R" THEN <<L("get")>>
                             ELSE IF t = "K" THEN <<L("k_none")>>
                             ELSE <<L("d_idle")>>]
    /\ running = "R"
    /\ frame = NoFrame
    /\ msg = NoMsg
    /\ wire = <<>>
    /\ delivered = <<>>
    /\ counts = [frames |-> 0, pongs |-> 0, fresh_pongs |-> 0, pings |-> 0,
                 calls |-> 0, tasks |-> 0, extra_tasks |-> 0, late_tasks |-> 0,
                 closed |-> 0, raised |-> 0,
                 on_close |-> 0]
    /\ gmsg = NoGmsg
    /\ obs = NoObs
    /\ call = NoCall

Init ==
    /\ request \in Requests
    /\ codec = NoCodec
    /\ params \in {[ping_interval |-> s[1], ping_timeout |-> s[2],
                    compression |-> FALSE] : s \in PingSettings}
    /\ Unconnected

\* what has happened to the connection so far
Events ==
    counts.frames + counts.pings + counts.calls
    + (IF writer.peer = "open" THEN 0 ELSE 1)

\* ------------------------------------------------------------- scheduling
\* positions at which a task is suspended (or has ended); at every other
\* position the task keeps the event loop
EndLabels == {"r_done", "crashed", "k_none", "k_done", "k_failed", "k_cancelled"}

SuspendLabels ==
    {"error_drain", "error_wait_closed", "accept_drain", "open", "read_header", "read_extlen", "read_mask",
     "read_payload", "on_message", "on_ping", "on_pong", "on_close",
     "pong_drain", "close_drain", "close_wait_closed", "abort_wait_closed",
     "k_sleep_interval", "k_ping_drain", "k_sleep_timeout", "k_sleep_next",
     "d_write_drain", "d_idle"}

Top(t) == Head(pc[t]).l

At(t, l) == Top(t) = l /\ running \in {"none", t}

\* Task.cancel() takes effect at the task's next suspension
Land(t, stk) ==
    IF t = "K" /\ conn.must_cancel /\ Head(stk).l \in SuspendLabels
    THEN <<L("k_cancelled")>> ELSE stk

Holder(t, stk) ==
    IF Head(Land(t, stk)).l \in SuspendLabels \cup EndLabels THEN "none" ELSE t

SetStack(t, stk) ==
    /\ pc' = [pc EXCEPT ![t] = Land(t, stk)]
    /\ running' = Holder(t, stk)

Goto(t, l) == SetStack(t, <<L(l)>> \o Tail(pc[t]))

Return(t) == SetStack(t, Tail(pc[t]))

CallClose(t, code, reason, ret) ==
    SetStack(t, <<[l |-> "close", code |-> code, reason |-> reason], L(ret)>>
                \o Tail(pc[t]))

CallAbort(t, ret) == SetStack(t, <<L("abort"), L(ret)>> \o Tail(pc[t]))

\* ------------------------------------------------------------ the stream
\* _write_frame: the ValueError for a control frame that is not final or
\* carries more than 125 bytes, raised before anything is written
WriteFrameRaises(fin, opcode, data_len) ==
    opcode >= 8 /\ (~fin \/ data_len > 125)

\* a close reason of the application that does not fit a control frame
LongReason == "a reason of 124 bytes"

\* len(utf8(reason)) of the reasons close() is called with
ReasonLen(reason) ==
    CASE reason = "None" -> 0
      [] reason = "bye" -> 3
      [] reason = "ping timed out" -> 14
      [] reason = "message too big" -> 15
      [] reason = "message too big after decompression" -> 35
      [] reason = LongReason -> 124

\* _write_frame up to writer.write(frame): the frame as the peer receives it
WriteFrame(t, opcode, data, reason) ==
    Append(wire, [opcode |-> opcode, data |-> data, reason |-> reason,
                  by |-> t, rsv1 |-> FALSE, plain |-> data])

\* WebSocketProtocol13.write_message up to writer.write(frame): with a
\* compressor the message is compressed and the frame carries RSV1
WriteMessageFrame(t, opcode, message) ==
    Append(wire, [opcode |-> opcode,
                  data |-> IF params.compression
                           THEN CompressorCompress(message) ELSE message,
                  reason |-> "None", by |-> t,
                  rsv1 |-> params.compression, plain |-> message])

\* drain() raises ConnectionResetError once the connection is lost
DrainCanRaise == writer.peer = "reset" \/ writer.closing

\* readexactly() raises IncompleteReadError at end of stream
ReadCanHitEof == writer.peer = "eof" \/ (writer.closing /\ writer.peer # "reset")

\* ------------------------------------------------ WebSocketProtocol13.close
\* the status code a close frame carries
CloseCode(code, reason) ==
    IF code = NoneNum /\ reason # "None" THEN 1000 ELSE code

CloseData(code, reason) ==
    IF CloseCode(code, reason) = NoneNum THEN <<>>
    ELSE Pack16(CloseCode(code, reason))

\* whether close() sends a close frame
CloseSendsFrame == ~conn.server_terminated /\ ~writer.closing

\* whether _write_frame refuses the close frame of close(code, reason)
CloseFrameRaises(code, reason) ==
    WriteFrameRaises(TRUE, OpClose, Len(CloseData(code, reason)) + ReasonLen(reason))

CloseEnter(t) ==
    /\ At(t, "close")
    /\ ~(CloseSendsFrame /\ CloseFrameRaises(Head(pc[t]).code, Head(pc[t]).reason))
    /\ LET e == Head(pc[t])
       IN IF CloseSendsFrame
          THEN /\ wire' = WriteFrame(t, OpClose, CloseData(e.code, e.reason), e.reason)
               /\ Goto(t, "close_drain")
               /\ UNCHANGED conn
          ELSE /\ conn' = [conn EXCEPT !.server_terminated = TRUE]
               /\ Goto(t, "close_stream")
               /\ UNCHANGED wire
    /\ UNCHANGED <<call, request, codec, params, handler, writer, frame, msg, delivered, counts, gmsg, obs>>

\* the ValueError of _write_frame leaves close() and WebSocketHandler.close
\* and reaches the application's caller: server_terminated is not set and
\* ws_connection is not cleared
CloseRaises(t) ==
    /\ At(t, "close")
    /\ t = "D"
    /\ CloseSendsFrame
    /\ CloseFrameRaises(Head(pc[t]).code, Head(pc[t]).reason)
    /\ call' = [kind |-> "close", unusable |-> FALSE, written |-> 0,
                result |-> "ValueError"]
    /\ SetStack(t, <<L("d_idle")>>)
    /\ UNCHANGED <<request, codec, params, conn, handler, writer, frame, msg, wire, delivered, counts, gmsg, obs>>

CloseDrainReturns(t) ==
    /\ At(t, "close_drain")
    /\ conn' = [conn EXCEPT !.server_terminated = TRUE]
    /\ Goto(t, "close_stream")
    /\ UNCHANGED <<call, request, codec, params, handler, writer, frame, msg, wire, delivered, counts, gmsg, obs>>

CloseDrainReset(t) ==
    /\ At(t, "close_drain")
    /\ DrainCanRaise
    /\ CallAbort(t, "close_mark")
    /\ UNCHANGED <<call, request, codec, params, conn, handler, writer, frame, msg, wire, delivered, counts, gmsg, obs>>

CloseMark(t) ==
    /\ At(t, "close_mark")
    /\ conn' = [conn EXCEPT !.server_terminated = TRUE]
    /\ Goto(t, "close_stream")
    /\ UNCHANGED <<call, request, codec, params, handler, writer, frame, msg, wire, delivered, counts, gmsg, obs>>

CloseStream(t) ==
    /\ At(t, "close_stream")
    /\ IF conn.client_terminated
       THEN /\ writer' = [writer EXCEPT !.closing = TRUE]
            /\ Goto(t, "close_wait_closed")
       ELSE /\ Goto(t, "close_cancel")
            /\ UNCHANGED writer
    /\ UNCHANGED <<call, request, codec, params, conn, handler, frame, msg, wire, delivered, counts, gmsg, obs>>

CloseWaitClosed(t) ==
    /\ At(t, "close_wait_closed")
    /\ Goto(t, "close_cancel")
    /\ UNCHANGED <<call, request, codec, params, conn, handler, writer, frame, msg, wire, delivered, counts, gmsg, obs>>

\* the keepalive task after _ping_coroutine.cancel() by task t
CancelledStack(t) ==
    IF t # "K" /\ conn.ping_coroutine /\ Top("K") \notin EndLabels
    THEN <<L("k_cancelled")>> ELSE pc["K"]

CloseCancelPing(t) ==
    /\ At(t, "close_cancel")
    /\ conn' = [conn EXCEPT !.ping_coroutine = FALSE,
                            !.must_cancel = @ \/ (t = "K" /\ conn.ping_coroutine)]
    /\ pc' = [[pc EXCEPT !["K"] = CancelledStack(t)] EXCEPT ![t] = Land(t, Tail(pc[t]))]
    /\ running' = Holder(t, Tail(pc[t]))
    /\ counts' = [counts EXCEPT !.closed = 1]
    /\ UNCHANGED <<call, request, codec, params, handler, writer, frame, msg, wire, delivered, gmsg, obs>>

\* ------------------------------------------------ WebSocketProtocol._abort
\* an abort that marks only the server's side
AbortTerminatesServerOnly(c) == [c EXCEPT !.server_terminated = TRUE]

\* an abort that takes back the client's termination
AbortTerminatesClientCleared(c) ==
    [c EXCEPT !.client_terminated = FALSE, !.server_terminated = TRUE]

\* _abort: both sides are marked terminated
AbortTerminates(c) ==
    [c EXCEPT !.client_terminated = TRUE, !.server_terminated = TRUE]

AbortEnter(t) ==
    /\ At(t, "abort")
    /\ conn' = AbortTerminates(conn)
    /\ writer' = [writer EXCEPT !.closing = TRUE]
    /\ Goto(t, "abort_wait_closed")
    /\ UNCHANGED <<call, request, codec, params, handler, frame, msg, wire, delivered, counts, gmsg, obs>>

\* _abort after wait_closed(): await self.close()
AbortWaitClosed(t) ==
    /\ At(t, "abort_wait_closed")
    /\ SetStack(t, <<L("close"), L("abort_return")>> \o Tail(pc[t]))
    /\ UNCHANGED <<call, request, codec, params, conn, handler, writer, frame, msg, wire, delivered, counts, gmsg, obs>>

\* close() has returned into _abort, which returns to its caller
AbortReturns(t) ==
    /\ At(t, "abort_return")
    /\ Return(t)
    /\ UNCHANGED <<call, request, codec, params, conn, handler, writer, frame, msg, wire, delivered, counts, gmsg, obs>>

\* -------------------------------------------------------------- keepalive
PingInterval ==
    IF params.ping_interval # NoneNum THEN params.ping_interval ELSE 0

PingTimeout ==
    IF params.ping_timeout # NoneNum
    THEN IF PingInterval # 0 /\ params.ping_timeout > PingInterval
         THEN PingInterval ELSE params.ping_timeout
    ELSE PingInterval

\* a start_pinging that looks at the interval only
StartsPingingAlways == PingInterval > 0

\* start_pinging: whether a keepalive task is created
StartsPinging == ~conn.ping_coroutine /\ PingInterval > 0

\* start_pinging: _ping_coroutine afterwards; a new task has no
\* cancellation pending
ConnAfterStart ==
    [conn EXCEPT !.ping_coroutine = @ \/ StartsPinging,
                 !.must_cancel = IF StartsPinging THEN FALSE ELSE @]

\* the keepalive task after start_pinging: a new one at its first sleep,
\* or the one there was
KeepaliveAfterStart ==
    IF StartsPinging THEN <<L("k_sleep_interval")>> ELSE pc["K"]

\* the tasks created so far, those created while an earlier one had not
\* ended, and those created after a close() had completed
CountsAfterStart ==
    [counts EXCEPT
        !.tasks = @ + (IF StartsPinging THEN 1 ELSE 0),
        !.extra_tasks = @ + (IF StartsPinging /\ Top("K") \notin EndLabels
                             THEN 1 ELSE 0),
        !.late_tasks = @ + (IF StartsPinging /\ counts.closed > 0
                            THEN 1 ELSE 0)]

\* periodic_ping, from the end of a sleep to the ping frame written
\* a keepalive loop that leaves the pong flag as it is
PongFlagAtPingKept == conn.received_pong

\* periodic_ping: the pong flag as the ping is sent
PongFlagAtPing == FALSE

SendPing ==
    /\ At("K", "k_sleep_interval") \/ At("K", "k_sleep_next")
    /\ Events < MaxEvents
    /\ conn' = [conn EXCEPT !.received_pong = PongFlagAtPing]
    /\ wire' = WriteFrame("K", OpPing, <<>>, "None")
    /\ counts' = [counts EXCEPT !.pings = @ + 1, !.fresh_pongs = 0]
    /\ Goto("K", "k_ping_drain")
    /\ UNCHANGED <<call, request, codec, params, handler, writer, frame, msg, delivered, gmsg, obs>>

PingDrainReturns ==
    /\ At("K", "k_ping_drain")
    /\ Goto("K", "k_sleep_timeout")
    /\ UNCHANGED <<call, request, codec, params, conn, handler, writer, frame, msg, wire, delivered, counts, gmsg, obs>>

\* ConnectionResetError is not caught in periodic_ping: the task ends
PingDrainReset ==
    /\ At("K", "k_ping_drain")
    /\ DrainCanRaise
    /\ Goto("K", "k_failed")
    /\ UNCHANGED <<call, request, codec, params, conn, handler, writer, frame, msg, wire, delivered, counts, gmsg, obs>>

\* a timeout check that reads the pong flag the wrong way round
PingTimedOutInverted == PingTimeout > 0 /\ conn.received_pong

\* whether the check after the timeout sleep closes the connection
PingTimedOut == PingTimeout > 0 /\ ~conn.received_pong

TimeoutCheck ==
    /\ At("K", "k_sleep_timeout")
    /\ IF PingTimedOut
       THEN CallClose("K", NoneNum, "ping timed out", "k_done")
       ELSE Goto("K", "k_sleep_next")
    /\ UNCHANGED <<call, request, codec, params, conn, handler, writer, frame, msg, wire, delivered, counts, gmsg, obs>>

\* ------------------------------------------------- the application's calls
\* the (code, reason) arguments the application closes with
CloseArgs == {<<NoneNum, "None">>, <<1001, "bye">>}

\* the connection as a call of the application finds it
\* (unusable: the handler has no connection, or one of the two sides has
\* terminated, or the stream is closing)
CallOf(kind) ==
    [kind |-> kind,
     unusable |-> \/ ~handler.ws_connection
                  \/ conn.client_terminated
                  \/ conn.server_terminated
                  \/ writer.closing,
     written |-> 0, result |-> "pending"]

\* WebSocketHandler.close
HandlerClose(code, reason) ==
    /\ At("D", "d_idle")
    /\ running = "none"
    /\ writer.status = 101
    /\ counts.calls < MaxDelegateCalls
    /\ Events < MaxEvents
    /\ counts' = [counts EXCEPT !.calls = @ + 1]
    /\ IF handler.ws_connection
       THEN CallClose("D", code, reason, "d_clear")
       ELSE UNCHANGED <<pc, running>>
    /\ UNCHANGED <<call, request, codec, params, conn, handler, writer, frame, msg, wire, delivered, gmsg, obs>>

HandlerCloseReturns ==
    /\ At("D", "d_clear")
    /\ handler' = [handler EXCEPT !.ws_connection = FALSE]
    /\ Goto("D", "d_idle")
    /\ UNCHANGED <<call, request, codec, params, conn, writer, frame, msg, wire, delivered, counts, gmsg, obs>>

\* the message the application sends: "AA"
OutgoingMessage == <<65, 65>>

\* is_closing() without the two termination flags
IsClosingStreamOnly == writer.closing

\* WebSocketProtocol13.is_closing
IsClosing ==
    writer.closing \/ conn.client_terminated \/ conn.server_terminated

\* the application may call once the connection was upgraded, or once
\* get() has ended whatever the outcome
CanCall ==
    /\ At("D", "d_idle")
    /\ running = "none"
    /\ writer.status = 101 \/ Top("R") \in EndLabels
    /\ counts.calls < MaxDelegateCalls
    /\ Events < MaxEvents

\* WebSocketHandler.write_message, to the frame written
HandlerWriteMessage(binary) ==
    /\ CanCall
    /\ counts' = [counts EXCEPT !.calls = @ + 1]
    /\ IF ~handler.ws_connection \/ IsClosing
       THEN /\ call' = [CallOf("write_message") EXCEPT
                           !.result = "WebSocketClosedError"]
            /\ UNCHANGED <<wire, pc, running>>
       ELSE /\ call' = [CallOf("write_message") EXCEPT !.written = 1]
            /\ wire' = WriteMessageFrame(
                           "D", IF binary THEN OpBinary ELSE OpText,
                           OutgoingMessage)
            /\ Goto("D", "d_write_drain")
    /\ UNCHANGED <<request, codec, params, conn, handler, writer, frame, msg, delivered, gmsg, obs>>

\* WebSocketHandler.ping(data), to the frame written or refused
HandlerPingData(data) ==
    /\ CanCall
    /\ counts' = [counts EXCEPT !.calls = @ + 1]
    /\ IF ~handler.ws_connection \/ IsClosing
       THEN /\ call' = [CallOf("ping") EXCEPT
                           !.result = "WebSocketClosedError"]
            /\ UNCHANGED <<wire, pc, running>>
       ELSE IF WriteFrameRaises(TRUE, OpPing, Len(data))
       THEN /\ call' = [CallOf("ping") EXCEPT !.result = "ValueError"]
            /\ UNCHANGED <<wire, pc, running>>
       ELSE /\ call' = [CallOf("ping") EXCEPT !.written = 1]
            /\ wire' = WriteFrame("D", OpPing, data, "None")
            /\ Goto("D", "d_write_drain")
    /\ UNCHANGED <<request, codec, params, conn, handler, writer, frame, msg, delivered, gmsg, obs>>

\* WebSocketHandler.ping with the default data
HandlerPing == HandlerPingData(<<>>)

HandlerDrainReturns ==
    /\ At("D", "d_write_drain")
    /\ call' = [call EXCEPT !.result = "returned"]
    /\ Goto("D", "d_idle")
    /\ UNCHANGED <<request, codec, params, conn, handler, writer, frame, msg, wire, delivered, counts, gmsg, obs>>

\* the exception a caller of write_message or ping gets when drain()
\* raises ConnectionResetError: only write_message translates it
RaisedToCaller(kind) ==
    IF kind = "write_message" THEN "WebSocketClosedError"
    ELSE "ConnectionResetError"

HandlerDrainReset ==
    /\ At("D", "d_write_drain")
    /\ DrainCanRaise
    /\ call' = [call EXCEPT !.result = RaisedToCaller(call.kind)]
    /\ Goto("D", "d_idle")
    /\ UNCHANGED <<request, codec, params, conn, handler, writer, frame, msg, wire, delivered, counts, gmsg, obs>>

\* ------------------------------------------------------------- the peer
PeerResets ==
    /\ running = "none"
    /\ writer.peer = "open"
    /\ Events < MaxEvents
    /\ writer' = [writer EXCEPT !.peer = "reset", !.closing = TRUE]
    /\ UNCHANGED <<call, request, codec, params, conn, handler, pc, running, frame, msg, wire, delivered, counts, gmsg, obs>>

PeerEndsStream ==
    /\ running = "none"
    /\ writer.peer = "open"
    /\ Events < MaxEvents
    /\ writer' = [writer EXCEPT !.peer = "eof"]
    /\ UNCHANGED <<call, request, codec, params, conn, handler, pc, running, frame, msg, wire, delivered, counts, gmsg, obs>>

\* ---------------------------------------------------------- the handshake
\* headers.get(name): whether the header is there and not empty
Given(value) == value # NoneBytes /\ value # <<>>

\* headers.get(name, "")
OrEmpty(value) == IF value = NoneBytes THEN <<>> ELSE value

UpgradeOk(r) == Lower(OrEmpty(r.upgrade)) = TextWebsocket

ConnectionTokens(r) ==
    {Lower(Strip(Split(OrEmpty(r.connection), 44)[i])) :
        i \in DOMAIN Split(OrEmpty(r.connection), 44)}

ConnectionOk(r) == TextUpgrade \in ConnectionTokens(r)

\* the origin get() checks: Origin, or Sec-Websocket-Origin if there is no
\* Origin header, or None
OriginOf(r) == IF r.origin # NoneBytes THEN r.origin ELSE r.sec_origin

\* an origin check that lowers neither side
CheckOriginExact(r, origin) == UrlNetloc(origin) = r.host

\* WebSocketHandler.check_origin
CheckOrigin(r, origin) == Lower(UrlNetloc(origin)) = r.host

OriginOk(r) == OriginOf(r) = NoneBytes \/ CheckOrigin(r, OriginOf(r))

\* get_websocket_protocol returns a protocol
VersionOk(r) == r.version \in SupportedVersions

\* _handle_websocket_headers does not raise
RequiredHeadersOk(r) == Given(r.host) /\ Given(r.key) /\ Given(r.version)

\* a get() that takes any version
HandshakeStatusAnyVersion(r) ==
    IF ~UpgradeOk(r) \/ ~ConnectionOk(r) THEN 400
    ELSE IF ~OriginOk(r) THEN 403
    ELSE IF ~RequiredHeadersOk(r) THEN 400
    ELSE 101

\* the status of the response get() writes
HandshakeStatus(r) ==
    IF ~UpgradeOk(r) THEN 400
    ELSE IF ~ConnectionOk(r) THEN 400
    ELSE IF ~OriginOk(r) THEN 403
    ELSE IF ~VersionOk(r) THEN 426
    ELSE IF ~RequiredHeadersOk(r) THEN 400
    ELSE 101

\* whether get() has created the protocol before it answers
ProtocolCreated(r) ==
    UpgradeOk(r) /\ ConnectionOk(r) /\ OriginOk(r) /\ VersionOk(r)

DeflateOffers(r) ==
    {i \in DOMAIN r.extensions : r.extensions[i].name = "permessage-deflate"}

\* a negotiation that does not ask for the handler's compression options
NegotiatesWithoutOptions(r) == DeflateOffers(r) # {}

\* _accept_connection creates the compressors
Negotiates(r) == r.compression_options # "None" /\ DeflateOffers(r) # {}

AllowedKeys ==
    {"server_no_context_takeover", "client_no_context_takeover",
     "server_max_window_bits", "client_max_window_bits"}

\* a parser that reads a parameter without a value as the default window
ParseHeaderBareAsDefault(offer) ==
    [name |-> offer.name,
     pdict |-> {[k |-> p.k, v |-> IF p.v = "None" THEN "15" ELSE p.v] :
                    p \in offer.params}]

\* httputil._parse_header: the name and the dictionary of the parameters.
\* A part without "=" is skipped; a value loses its surrounding quotes.
ParseHeader(offer) ==
    [name |-> offer.name,
     pdict |-> {[k |-> p.k, v |-> p.v] :
                    p \in {q \in offer.params : q.v # "None"}}]

\* the offer _accept_connection takes: the first permessage-deflate one
FirstDeflate(r) == CHOOSE i \in DeflateOffers(r) : \A j \in DeflateOffers(r) : i <= j

\* ext[1] of that offer, the agreed_parameters of _create_compressors
AgreedParameters(r) == ParseHeader(r.extensions[FirstDeflate(r)]).pdict

ParameterNames(pdict) == {p.k : p \in pdict}

\* agreed_parameters.get(key, None)
ParameterValue(pdict, key) ==
    IF key \in ParameterNames(pdict)
    THEN (CHOOSE p \in pdict : p.k = key).v
    ELSE "None"

\* int(wbits_header); NoneNum where int() raises ValueError
WindowBitsOf(v) ==
    CASE v = "7" -> 7
      [] v = "8" -> 8
      [] v = "10" -> 10
      [] v = "15" -> 15
      [] OTHER -> NoneNum

\* _get_compressor_options and the constructors of the compressor and the
\* decompressor raise ValueError for the side's max_window_bits
MaxWbitsRaises(pdict, side) ==
    LET wbits_header == ParameterValue(pdict, side)
    IN  /\ wbits_header # "None"
        /\ WindowBitsOf(wbits_header) \notin 8..15

\* _get_compressor_options(side, agreed_parameters): the context is
\* persistent unless side + "_no_context_takeover" is a key, and max_wbits
\* is int() of side + "_max_window_bits", zlib.MAX_WBITS without one
GetCompressorOptions(side, pdict) ==
    LET takeover == IF side = "server" THEN "server_no_context_takeover"
                    ELSE "client_no_context_takeover"
        wbits_header == ParameterValue(pdict,
                            IF side = "server" THEN "server_max_window_bits"
                            ELSE "client_max_window_bits")
    IN  [persistent |-> takeover \notin ParameterNames(pdict),
         max_wbits |-> IF wbits_header = "None" THEN 15
                       ELSE WindowBitsOf(wbits_header)]

\* _create_compressors("server", ...): the compressor is made for the
\* server's side of the agreed parameters, the decompressor for the other
CreatedCompressor(r) == GetCompressorOptions("server", AgreedParameters(r))

CreatedDecompressor(r) == GetCompressorOptions("client", AgreedParameters(r))

\* _create_compressors raises ValueError
CompressorsRaise(r) ==
    /\ Negotiates(r)
    /\ \/ ~(ParameterNames(AgreedParameters(r)) \subseteq AllowedKeys)
       \/ MaxWbitsRaises(AgreedParameters(r), "server_max_window_bits")
       \/ MaxWbitsRaises(AgreedParameters(r), "client_max_window_bits")

\* zlib.compressobj refuses a window of 256 bytes in some builds: the
\* persistent compressor is created in the constructor
CompressorsMayRaise(r) ==
    /\ Negotiates(r)
    /\ ParameterValue(AgreedParameters(r), "server_max_window_bits") = "8"
    /\ "server_no_context_takeover" \notin ParameterNames(AgreedParameters(r))

\* _accept_connection: an offered client_max_window_bits with no value is
\* deleted before the parameters are echoed
EchoedParameters(pdict) ==
    {p \in pdict : ~(p.k = "client_max_window_bits" /\ p.v = "None")}

\* httputil._encode_header: "k=v" for a value, "k" alone for None, never
\* quoted
EncodeHeader(key, pdict) ==
    [name |-> key, params |-> {Param(p.k, p.v, FALSE) : p \in pdict}]

\* get() answers with an error: send_http_error writes the response
RejectHandshake ==
    /\ At("R", "get")
    /\ HandshakeStatus(request) # 101
    /\ handler' = [handler EXCEPT !.ws_connection = ProtocolCreated(request)]
    /\ writer' = [writer EXCEPT
            !.status = HandshakeStatus(request),
            !.responses = @ + 1,
            !.headers = IF HandshakeStatus(request) = 426
                        THEN {"Sec-WebSocket-Version"} ELSE {}]
    /\ Goto("R", "error_drain")
    /\ UNCHANGED <<call, request, codec, params, conn, frame, msg, wire, delivered, counts, gmsg, obs>>

\* send_http_error after the drain: writer.close()
ErrorDrainReturns ==
    /\ At("R", "error_drain")
    /\ writer' = [writer EXCEPT !.closing = TRUE]
    /\ Goto("R", "error_wait_closed")
    /\ UNCHANGED <<call, request, codec, params, conn, handler, frame, msg, wire, delivered, counts, gmsg, obs>>

\* ConnectionResetError leaves send_response, send_http_error and get()
ErrorDrainReset ==
    /\ At("R", "error_drain")
    /\ DrainCanRaise
    /\ Goto("R", "crashed")
    /\ UNCHANGED <<call, request, codec, params, conn, handler, writer, frame, msg, wire, delivered, counts, gmsg, obs>>

ErrorWaitClosed ==
    /\ At("R", "error_wait_closed")
    /\ Goto("R", "r_done")
    /\ UNCHANGED <<call, request, codec, params, conn, handler, writer, frame, msg, wire, delivered, counts, gmsg, obs>>

\* _accept_connection: the compressors are created and the 101 response
\* is written
AcceptConnection ==
    /\ At("R", "get")
    /\ HandshakeStatus(request) = 101
    /\ ~CompressorsRaise(request)
    /\ handler' = [handler EXCEPT !.ws_connection = TRUE]
    /\ params' = [params EXCEPT !.compression = Negotiates(request)]
    /\ writer' = [writer EXCEPT
            !.status = 101,
            !.responses = @ + 1,
            !.headers = IF Negotiates(request)
                        THEN {"Sec-WebSocket-Extensions"} ELSE {},
            !.extensions =
                IF Negotiates(request)
                THEN EncodeHeader("permessage-deflate",
                                  EchoedParameters(AgreedParameters(request)))
                ELSE NoExtensions]
    /\ Goto("R", "accept_drain")
    /\ UNCHANGED <<call, request, codec, conn, frame, msg, wire, delivered, counts, gmsg, obs>>

\* _create_compressors raised ValueError: accept_connection calls _abort()
\* and nothing is written
AcceptRaises ==
    /\ At("R", "get")
    /\ HandshakeStatus(request) = 101
    /\ CompressorsRaise(request) \/ CompressorsMayRaise(request)
    /\ handler' = [handler EXCEPT !.ws_connection = TRUE]
    /\ CallAbort("R", "r_done")
    /\ UNCHANGED <<call, request, codec, params, conn, writer, frame, msg, wire, delivered, counts, gmsg, obs>>

\* ConnectionResetError leaves _accept_connection, accept_connection and
\* get()
AcceptDrainReset ==
    /\ At("R", "accept_drain")
    /\ DrainCanRaise
    /\ Goto("R", "crashed")
    /\ UNCHANGED <<call, request, codec, params, conn, handler, writer, frame, msg, wire, delivered, counts, gmsg, obs>>

\* _accept_connection after the drain: start_pinging(), then handler.open()
StartPinging ==
    /\ At("R", "accept_drain")
    /\ conn' = ConnAfterStart
    /\ counts' = CountsAfterStart
    /\ pc' = [pc EXCEPT !["R"] = <<L("open")>>, !["K"] = KeepaliveAfterStart]
    /\ running' = "none"
    /\ request' = NoRequest
    /\ UNCHANGED <<call, codec, params, handler, writer, frame, msg, wire, delivered, gmsg, obs>>

OpenReturns ==
    /\ At("R", "open")
    /\ handler' = [handler EXCEPT !.open = "returned"]
    /\ Goto("R", "loop")
    /\ UNCHANGED <<call, request, codec, params, conn, writer, frame, msg, wire, delivered, counts, gmsg, obs>>

\* a handshake that enters the read loop although open() raised
AfterOpenRaisedStartsLoop == "loop"

\* where _accept_connection is once open() has raised and _abort() is done
AfterOpenRaised == "r_done"

\* open() raised: _abort(), and the read loop is never entered
OpenRaises ==
    /\ At("R", "open")
    /\ handler' = [handler EXCEPT !.open = "raised"]
    /\ CallAbort("R", AfterOpenRaised)
    /\ UNCHANGED <<call, request, codec, params, conn, writer, frame, msg, wire, delivered, counts, gmsg, obs>>

\* ------------------------------------------------------ _receive_frame_loop
\* a read loop that never finds the client's side terminated
ClientTerminatedIgnored == FALSE

\* self.client_terminated as the read loop reads it: in the condition of
\* its while loop and at the head of _handle_message
ClientTerminated == conn.client_terminated

LoopHead ==
    /\ At("R", "loop")
    /\ obs' = NoObs
    /\ Goto("R", IF ~ClientTerminated THEN "read_header" ELSE "loop_exit")
    /\ UNCHANGED <<call, request, codec, params, conn, handler, writer, frame, msg, wire, delivered, counts, gmsg>>

ReadLabels == {"read_header", "read_extlen", "read_mask", "read_payload"}

\* readexactly raised ConnectionResetError: caught by the loop, _abort()
ReadReset ==
    /\ running = "none"
    /\ Top("R") \in ReadLabels
    /\ writer.peer = "reset"
    /\ frame' = NoFrame
    /\ CallAbort("R", "loop_exit")
    /\ UNCHANGED <<call, request, codec, params, conn, handler, writer, msg, wire, delivered, counts, gmsg, obs>>

\* readexactly raised IncompleteReadError, which nothing catches
ReadEof ==
    /\ running = "none"
    /\ Top("R") \in ReadLabels
    /\ ReadCanHitEof
    /\ frame' = NoFrame
    /\ obs' = [obs EXCEPT !.eof = TRUE]
    /\ Goto("R", "crashed")
    /\ UNCHANGED <<call, request, codec, params, conn, handler, writer, msg, wire, delivered, counts, gmsg>>

\* ------------------------------------- the frame as the peer meant it
\* the payload before the peer masked it
PeerPayload(f) ==
    IF f.masked THEN WebsocketMask(MaskKey, f.payload) ELSE f.payload

\* the place of frame f in the peer's message stream
Role(g, f) ==
    IF IsControl(f.opcode) THEN "control"
    ELSE IF f.opcode = OpContinuation
    THEN IF ~g.active THEN "stray" ELSE IF f.fin THEN "last" ELSE "middle"
    ELSE IF g.active THEN "intruder" ELSE IF f.fin THEN "single" ELSE "first"

\* whether frame f completes a message or is a control frame
Completes(g, f) == Role(g, f) \in {"control", "single", "last"}

PeerOpcode(g, f) == IF Role(g, f) = "last" THEN g.opcode ELSE f.opcode

PeerBytes(g, f) ==
    IF Role(g, f) = "last" THEN g.concat \o PeerPayload(f) ELSE PeerPayload(f)

PeerCompressed(g, f) ==
    params.compression /\ (IF Role(g, f) = "last" THEN g.rsv1 ELSE f.rsv1)

\* the message inflated as far as one byte beyond max_message_size
PeerInflated(g, f) ==
    IF PeerCompressed(g, f)
    THEN ZlibDecompress(PeerBytes(g, f) \o SyncMarker, MaxMessageSize + 1)
    ELSE [out |-> PeerBytes(g, f), tail |-> <<>>, err |-> FALSE]

InflateOutcome(g, f) ==
    IF ~Completes(g, f) THEN "ok"
    ELSE IF PeerInflated(g, f).err THEN "garbage"
    ELSE IF PeerCompressed(g, f) /\ Len(PeerInflated(g, f).out) > MaxMessageSize
    THEN "bomb"
    ELSE "ok"

KnownOpcodes == {OpContinuation, OpText, OpBinary, OpClose, OpPing, OpPong}

\* the protocol violations frame f commits
Violations(g, f) ==
    {v \in {"reserved bit", "stray continuation", "new message", "fragmented control",
            "control length", "opcode", "utf8"} :
        \/ v = "reserved bit"
           /\ (f.rsv23 \/ (f.rsv1 /\ ~(params.compression /\ f.opcode # OpContinuation)))
        \/ v = "stray continuation" /\ Role(g, f) = "stray"
        \/ v = "new message" /\ Role(g, f) = "intruder" /\ f.opcode \in {OpText, OpBinary}
        \/ v = "fragmented control" /\ IsControl(f.opcode) /\ ~f.fin
        \/ v = "control length" /\ IsControl(f.opcode) /\ f.len7 >= 126
        \/ v = "opcode" /\ f.opcode \notin KnownOpcodes
        \/ v = "utf8"
           /\ Role(g, f) \in {"single", "last"}
           /\ PeerOpcode(g, f) = OpText
           /\ InflateOutcome(g, f) = "ok"
           /\ Utf8Decode(PeerInflated(g, f).out) = NoneBytes}

Oversize(g, f) ==
    f.declared + (IF g.active THEN Len(g.concat) ELSE 0) > MaxMessageSize

Observe(g, f) ==
    [NoObs EXCEPT !.busy = TRUE, !.role = Role(g, f),
                  !.oversize = Oversize(g, f), !.viols = Violations(g, f),
                  !.inflate = InflateOutcome(g, f),
                  !.expect = IF Completes(g, f)
                             THEN [opcode |-> PeerOpcode(g, f),
                                   data |-> PeerInflated(g, f).out]
                             ELSE NoMsg,
                  !.interleaved = g.interleaved,
                  !.fragments = g.fragments + 1,
                  !.wire0 = Len(wire), !.delivered0 = Len(delivered),
                  !.rsv1 = f.rsv1]

\* the peer's view of the message in progress after frame f
GhostAfter(g, f) ==
    IF Role(g, f) = "control" THEN [g EXCEPT !.interleaved = g.active]
    ELSE IF Role(g, f) = "first"
    THEN [active |-> TRUE, opcode |-> f.opcode, rsv1 |-> f.rsv1,
          concat |-> PeerPayload(f), interleaved |-> FALSE, fragments |-> 1]
    ELSE IF Role(g, f) = "middle"
    THEN [g EXCEPT !.concat = @ \o PeerPayload(f), !.fragments = @ + 1]
    ELSE IF Role(g, f) = "intruder" THEN g
    ELSE NoGmsg

\* --------------------------------------------------------- _receive_frame
\* a header check that lets RSV1 through on every connection
ReservedBitsWithoutRsv1(f) == f.rsv23

\* the reserved bits left once the compression flag is taken out
ReservedBits(f) ==
    f.rsv23 \/ (f.rsv1 /\ ~(params.compression /\ f.opcode # OpContinuation))

FrameCompressed(f) ==
    IF params.compression /\ f.opcode # OpContinuation THEN f.rsv1
    ELSE conn.frame_compressed

ControlTooLong(f) == IsControl(f.opcode) /\ f.len7 >= 126

\* the two header bytes of frame f arrive
ReceiveHeader(f) ==
    /\ At("R", "read_header")
    /\ writer.peer = "open"
    /\ counts' = [counts EXCEPT !.frames = @ + 1,
                                !.pongs = @ + (IF f.opcode = OpPong THEN 1 ELSE 0)]
    /\ obs' = Observe(gmsg, f)
    /\ conn' = [conn EXCEPT !.frame_compressed = FrameCompressed(f)]
    /\ IF ReservedBits(f) \/ ControlTooLong(f)
       THEN /\ CallAbort("R", "loop")
            /\ frame' = NoFrame
       ELSE /\ Goto("R", IF f.len7 < 126 THEN "size_check" ELSE "read_extlen")
            /\ frame' = f
    /\ UNCHANGED <<call, request, codec, params, handler, writer, msg, wire, delivered, gmsg>>

ReadHeader(f) == Events < MaxEvents /\ ReceiveHeader(f)

ReadExtendedLength ==
    /\ At("R", "read_extlen")
    /\ writer.peer = "open"
    /\ Goto("R", "size_check")
    /\ UNCHANGED <<call, request, codec, params, conn, handler, writer, frame, msg, wire, delivered, counts, gmsg, obs>>

BufferedLen ==
    IF conn.fragmented_message_buffer # NoneBytes
    THEN Len(conn.fragmented_message_buffer) ELSE 0

\* a size check that forgets the bytes already buffered
NewLenOfFrameOnly(f) == f.declared

NewLen(f) == f.declared + BufferedLen

\* a size check that lets one byte too many through
TooBigOffByOne(f) == NewLen(f) > MaxMessageSize + 1

TooBig(f) == NewLen(f) > MaxMessageSize

\* readexactly(0) returns at once
PayloadLabel(f) == IF f.declared = 0 THEN "read_payload_now" ELSE "read_payload"

SizeCheck ==
    /\ At("R", "size_check")
    /\ IF TooBig(frame)
       THEN /\ CallClose("R", 1009, "message too big", "oversize_abort")
            /\ obs' = [obs EXCEPT !.size_checked = TRUE, !.closable = CloseSendsFrame]
            /\ frame' = NoFrame
       ELSE /\ Goto("R", IF frame.masked THEN "read_mask" ELSE PayloadLabel(frame))
            /\ obs' = [obs EXCEPT !.size_checked = TRUE]
            /\ UNCHANGED frame
    /\ UNCHANGED <<call, request, codec, params, conn, handler, writer, msg, wire, delivered, counts, gmsg>>

\* after close(1009, ...): _abort()
OversizeAbort ==
    /\ At("R", "oversize_abort")
    /\ CallAbort("R", "loop")
    /\ UNCHANGED <<call, request, codec, params, conn, handler, writer, frame, msg, wire, delivered, counts, gmsg, obs>>

ReadMask ==
    /\ At("R", "read_mask")
    /\ writer.peer = "open"
    /\ conn' = [conn EXCEPT !.frame_mask = MaskKey]
    /\ Goto("R", PayloadLabel(frame))
    /\ UNCHANGED <<call, request, codec, params, handler, writer, frame, msg, wire, delivered, counts, gmsg, obs>>

Unmasked(f) ==
    IF f.masked THEN WebsocketMask(conn.frame_mask, f.payload) ELSE f.payload

\* a buffer that keeps only the latest fragment
ExtendOverwrites(buf, data) == data

\* bytearray.extend
Extend(buf, data) == buf \o data

\* a control frame that discards the fragments received so far
BufferAfterControlCleared(buf) == NoneBytes

\* the control-frame branch does not touch the fragment buffer
BufferAfterControl(buf) == buf

\* "Decide what to do with this frame": what becomes of the buffer, and the
\* message handed to _handle_message if there is one
Dispatch(f, data) ==
    LET buf == conn.fragmented_message_buffer
        keep == [abort |-> FALSE, handle |-> FALSE, msg |-> NoMsg,
                 buffer |-> buf, opcode |-> conn.fragmented_message_opcode]
    IN IF IsControl(f.opcode)
       THEN IF ~f.fin THEN [keep EXCEPT !.abort = TRUE]
            ELSE [keep EXCEPT !.handle = TRUE,
                              !.buffer = BufferAfterControl(buf),
                              !.msg = [opcode |-> f.opcode, data |-> data]]
       ELSE IF f.opcode = OpContinuation
       THEN IF buf = NoneBytes THEN [keep EXCEPT !.abort = TRUE]
            ELSE IF f.fin
            THEN [keep EXCEPT !.handle = TRUE, !.buffer = NoneBytes,
                              !.msg = [opcode |-> conn.fragmented_message_opcode,
                                       data |-> Extend(buf, data)]]
            ELSE [keep EXCEPT !.buffer = Extend(buf, data)]
       ELSE IF buf # NoneBytes THEN [keep EXCEPT !.abort = TRUE]
            ELSE IF ~f.fin
            THEN [keep EXCEPT !.buffer = data, !.opcode = f.opcode]
            ELSE [keep EXCEPT !.handle = TRUE,
                              !.msg = [opcode |-> f.opcode, data |-> data]]

\* the payload is read and the frame dispatched; _handle_message returns
\* at once on a connection the client has terminated
ReadPayload ==
    /\ \/ At("R", "read_payload") /\ writer.peer = "open"
       \/ At("R", "read_payload_now")
    /\ LET d == Dispatch(frame, Unmasked(frame))
       IN /\ conn' = [conn EXCEPT !.fragmented_message_buffer = d.buffer,
                                  !.fragmented_message_opcode = d.opcode]
          /\ IF d.abort
             THEN CallAbort("R", "loop") /\ msg' = NoMsg
             ELSE IF d.handle /\ ~ClientTerminated
             THEN Goto("R", "handle_message") /\ msg' = d.msg
             ELSE Goto("R", "loop") /\ msg' = NoMsg
    /\ frame' = NoFrame
    /\ obs' = [obs EXCEPT !.payload_read = TRUE]
    /\ gmsg' = GhostAfter(gmsg, frame)
    /\ UNCHANGED <<call, request, codec, params, handler, writer, wire, delivered, counts>>

\* --------------------------------------------------------- _handle_message
\* the payload after the decompression step
Inflated ==
    IF conn.frame_compressed THEN DecompressorDecompress(msg.data)
    ELSE [exc |-> "", result |-> msg.data]

TooLargeReason == "message too big after decompression"

HandleTooLarge ==
    /\ At("R", "handle_message")
    /\ Inflated.exc = "_DecompressTooLargeError"
    /\ CallClose("R", 1009, TooLargeReason, "oversize_abort")
    /\ msg' = NoMsg
    /\ obs' = [obs EXCEPT !.handled = TRUE, !.closable = CloseSendsFrame]
    /\ UNCHANGED <<call, request, codec, params, conn, handler, writer, frame, wire, delivered, counts, gmsg>>

\* zlib.error is caught nowhere
HandleZlibError ==
    /\ At("R", "handle_message")
    /\ Inflated.exc = "zlib.error"
    /\ Goto("R", "crashed")
    /\ msg' = NoMsg
    /\ obs' = [obs EXCEPT !.handled = TRUE]
    /\ UNCHANGED <<call, request, codec, params, conn, handler, writer, frame, wire, delivered, counts, gmsg>>

\* what on_message receives: the decoded text or the bytes
MessageFor(opcode, data) == IF opcode = OpText THEN Utf8Decode(data) ELSE data

\* a read loop that does not await on_message
AfterOnMessageCallNotAwaited == "loop"

\* where the read loop is once on_message has been called
AfterOnMessageCall == "on_message"

HandleData ==
    /\ At("R", "handle_message")
    /\ Inflated.exc = ""
    /\ msg.opcode \in {OpText, OpBinary}
    /\ IF MessageFor(msg.opcode, Inflated.result) = NoneBytes
       THEN /\ CallAbort("R", "loop")
            /\ UNCHANGED delivered
       ELSE /\ delivered' = Append(delivered,
                    [fid |-> counts.frames, opcode |-> msg.opcode,
                     data |-> MessageFor(msg.opcode, Inflated.result),
                     returned |-> FALSE])
            /\ Goto("R", AfterOnMessageCall)
    /\ msg' = NoMsg
    /\ obs' = [obs EXCEPT !.handled = TRUE]
    /\ UNCHANGED <<call, request, codec, params, conn, handler, writer, frame, wire, counts, gmsg>>

OnMessageReturns ==
    /\ running = "none"
    /\ \E i \in 1..Len(delivered) :
        /\ ~delivered[i].returned
        /\ delivered' = [delivered EXCEPT ![i].returned = TRUE]
        /\ IF Top("R") = "on_message" /\ i = Len(delivered)
           THEN Goto("R", "loop")
           ELSE UNCHANGED <<pc, running>>
    /\ UNCHANGED <<call, request, codec, params, conn, handler, writer, frame, msg, wire, counts, gmsg, obs>>

\* the exceptions an on_message of the application raises: one that is a
\* ValueError and one that is not
OnMessageExceptions == {"ValueError", "RuntimeError"}

\* on_message raised: nothing catches it in _handle_message, _receive_frame
\* or _receive_frame_loop; accept_connection answers a ValueError with
\* _abort() and returns, any other exception leaves get()
OnMessageRaises(exc) ==
    /\ At("R", "on_message")
    /\ delivered' = [delivered EXCEPT ![Len(delivered)].returned = TRUE]
    /\ counts' = [counts EXCEPT !.raised = @ + 1]
    /\ IF exc = "ValueError" THEN CallAbort("R", "r_done")
       ELSE Goto("R", "crashed")
    /\ UNCHANGED <<call, request, codec, params, conn, handler, writer, frame, msg, wire, gmsg, obs>>

\* close_code and close_reason after a close frame with this payload
ReceivedCode(data) == IF Len(data) >= 2 THEN Unpack16(data) ELSE conn.close_code

ReceivedReason(data) ==
    IF Len(data) > 2 THEN Utf8Decode(Drop(data, 2)) ELSE conn.close_reason

HandleClose ==
    /\ At("R", "handle_message")
    /\ Inflated.exc = ""
    /\ msg.opcode = OpClose
    /\ LET data == Inflated.result
           bad == Len(data) > 2 /\ ReceivedReason(data) = NoneBytes
       IN /\ conn' = [conn EXCEPT !.client_terminated = TRUE,
                                  !.close_code = ReceivedCode(data),
                                  !.close_reason = IF bad THEN @ ELSE ReceivedReason(data)]
          \* to_unicode raised UnicodeDecodeError, a ValueError: it ends
          \* the read loop and accept_connection answers it with _abort()
          /\ IF bad THEN CallAbort("R", "r_done")
             ELSE CallClose("R", ReceivedCode(data), "None", "loop")
    /\ msg' = NoMsg
    /\ obs' = [obs EXCEPT !.handled = TRUE, !.closable = CloseSendsFrame]
    /\ UNCHANGED <<call, request, codec, params, handler, writer, frame, wire, delivered, counts, gmsg>>

HandlePing ==
    /\ At("R", "handle_message")
    /\ Inflated.exc = ""
    /\ msg.opcode = OpPing
    /\ wire' = WriteFrame("R", OpPong, Inflated.result, "None")
    /\ Goto("R", "pong_drain")
    /\ msg' = NoMsg
    /\ obs' = [obs EXCEPT !.handled = TRUE]
    /\ UNCHANGED <<call, request, codec, params, conn, handler, writer, frame, delivered, counts, gmsg>>

PongDrainReturns ==
    /\ At("R", "pong_drain")
    /\ Goto("R", "on_ping")
    /\ UNCHANGED <<call, request, codec, params, conn, handler, writer, frame, msg, wire, delivered, counts, gmsg, obs>>

PongDrainReset ==
    /\ At("R", "pong_drain")
    /\ DrainCanRaise
    /\ CallAbort("R", "call_on_ping")
    /\ UNCHANGED <<call, request, codec, params, conn, handler, writer, frame, msg, wire, delivered, counts, gmsg, obs>>

CallOnPing ==
    /\ At("R", "call_on_ping")
    /\ Goto("R", "on_ping")
    /\ UNCHANGED <<call, request, codec, params, conn, handler, writer, frame, msg, wire, delivered, counts, gmsg, obs>>

HandlePong ==
    /\ At("R", "handle_message")
    /\ Inflated.exc = ""
    /\ msg.opcode = OpPong
    /\ conn' = [conn EXCEPT !.received_pong = TRUE]
    /\ counts' = [counts EXCEPT !.fresh_pongs = @ + 1]
    /\ Goto("R", "on_pong")
    /\ msg' = NoMsg
    /\ obs' = [obs EXCEPT !.handled = TRUE]
    /\ UNCHANGED <<call, request, codec, params, handler, writer, frame, wire, delivered, gmsg>>

\* on_ping or on_pong returned
CallbackReturns ==
    /\ At("R", "on_ping") \/ At("R", "on_pong")
    /\ Goto("R", "loop")
    /\ UNCHANGED <<call, request, codec, params, conn, handler, writer, frame, msg, wire, delivered, counts, gmsg, obs>>

HandleUnknownOpcode ==
    /\ At("R", "handle_message")
    /\ Inflated.exc = ""
    /\ msg.opcode \notin {OpText, OpBinary, OpClose, OpPing, OpPong}
    /\ CallAbort("R", "loop")
    /\ msg' = NoMsg
    /\ obs' = [obs EXCEPT !.handled = TRUE]
    /\ UNCHANGED <<call, request, codec, params, conn, handler, writer, frame, wire, delivered, counts, gmsg>>

\* ------------------------------------- the end of the read loop: on_close
\* on_ws_connection_close, then on_connection_close up to the protocol's
\* on_connection_close (_abort)
LoopExit ==
    /\ At("R", "loop_exit")
    /\ handler' = [handler EXCEPT !.close_code = conn.close_code,
                                  !.close_reason = conn.close_reason]
    /\ IF handler.ws_connection THEN CallAbort("R", "occ_clear")
       ELSE Goto("R", "occ_on_close")
    /\ UNCHANGED <<call, request, codec, params, conn, writer, frame, msg, wire, delivered, counts, gmsg, obs>>

ConnectionCleared ==
    /\ At("R", "occ_clear")
    /\ handler' = [handler EXCEPT !.ws_connection = FALSE]
    /\ Goto("R", "occ_on_close")
    /\ UNCHANGED <<call, request, codec, params, conn, writer, frame, msg, wire, delivered, counts, gmsg, obs>>

CallOnClose ==
    /\ At("R", "occ_on_close")
    /\ handler' = [handler EXCEPT !.on_close_called = TRUE]
    /\ counts' = [counts EXCEPT !.on_close = IF handler.on_close_called THEN @ ELSE @ + 1]
    /\ Goto("R", IF handler.on_close_called THEN "r_done" ELSE "on_close")
    /\ UNCHANGED <<call, request, codec, params, conn, writer, frame, msg, wire, delivered, gmsg, obs>>

OnCloseReturns ==
    /\ At("R", "on_close")
    /\ Goto("R", "r_done")
    /\ UNCHANGED <<call, request, codec, params, conn, handler, writer, frame, msg, wire, delivered, counts, gmsg, obs>>

\* asyncio from 3.12 on closes the transport of a connection whose handler
\* task ended with an exception; earlier versions leave it open
TransportClosedAfterCrash ==
    /\ running = "none"
    /\ Top("R") = "crashed"
    /\ ~writer.closing
    /\ writer' = [writer EXCEPT !.closing = TRUE]
    /\ UNCHANGED <<call, request, codec, params, conn, handler, pc, running, frame, msg, wire, delivered, counts, gmsg, obs>>

\* ------------------------------------------------------------------- Next
Next ==
    \/ RejectHandshake
    \/ ErrorDrainReturns
    \/ ErrorDrainReset
    \/ ErrorWaitClosed
    \/ AcceptConnection
    \/ AcceptRaises
    \/ AcceptDrainReset
    \/ StartPinging
    \/ OpenReturns
    \/ OpenRaises
    \/ LoopHead
    \/ ReadReset
    \/ ReadEof
    \/ \E f \in Frames : ReadHeader(f)
    \/ ReadExtendedLength
    \/ SizeCheck
    \/ OversizeAbort
    \/ ReadMask
    \/ ReadPayload
    \/ HandleTooLarge
    \/ HandleZlibError
    \/ HandleData
    \/ OnMessageReturns
    \/ HandleClose
    \/ HandlePing
    \/ PongDrainReturns
    \/ PongDrainReset
    \/ CallOnPing
    \/ HandlePong
    \/ CallbackReturns
    \/ HandleUnknownOpcode
    \/ LoopExit
    \/ ConnectionCleared
    \/ CallOnClose
    \/ OnCloseReturns
    \/ TransportClosedAfterCrash
    \/ SendPing
    \/ PingDrainReturns
    \/ PingDrainReset
    \/ TimeoutCheck
    \/ \E a \in CloseArgs : HandlerClose(a[1], a[2])
    \/ HandlerCloseReturns
    \/ PeerResets
    \/ PeerEndsStream
    \/ \E t \in Tasks : CloseEnter(t)
    \/ \E t \in Tasks : CloseDrainReturns(t)
    \/ \E t \in Tasks : CloseDrainReset(t)
    \/ \E t \in Tasks : CloseMark(t)
    \/ \E t \in Tasks : CloseStream(t)
    \/ \E t \in Tasks : CloseWaitClosed(t)
    \/ \E t \in Tasks : CloseCancelPing(t)
    \/ \E t \in Tasks : AbortEnter(t)
    \/ \E t \in Tasks : AbortWaitClosed(t)
    \/ \E t \in Tasks : AbortReturns(t)

Spec == Init /\ [][Next]_vars

\* ------------------------------------------ the extension negotiation
(* The handshake of otherwise acceptable requests that offer               *)
(* permessage-deflate with parameters: with and without values, quoted,    *)
(* out of range, not numbers, unknown, after an offer of another extension. *)
ParamChoices(k, values) ==
    {{}} \cup {{Param(k, v, FALSE)} : v \in values}

DeflateParams ==
    {a \cup b \cup c \cup d \cup e :
        a \in ParamChoices("client_max_window_bits", {"None", "7", "10", "abc"})
                 \cup {{Param("client_max_window_bits", "10", TRUE)}},
        b \in ParamChoices("server_max_window_bits", {"None", "8", "15"}),
        c \in ParamChoices("server_no_context_takeover", {"None", "1"}),
        d \in ParamChoices("unknown_parameter", {"None", "1"}),
        e \in ParamChoices("client_no_context_takeover", {"None"})}

OfferRequests ==
    {[PlainRequest EXCEPT !.extensions = e, !.compression_options = opt] :
        e \in {<<Offer("permessage-deflate", ps)>> : ps \in DeflateParams}
              \cup {<<Offer("x-webkit-deflate-frame", {}), Offer("permessage-deflate", ps)>> :
                        ps \in {{}, {Param("client_max_window_bits", "None", FALSE)}}},
        opt \in {"None", "{}"}}

NegotiationInit ==
    /\ request \in OfferRequests
    /\ codec = NoCodec
    /\ params = [ping_interval |-> 1, ping_timeout |-> 2, compression |-> FALSE]
    /\ Unconnected

NegotiationNext ==
    \/ AcceptConnection
    \/ AcceptRaises
    \/ AcceptDrainReset
    \/ StartPinging
    \/ PeerResets
    \/ \E t \in Tasks : AbortEnter(t)
    \/ \E t \in Tasks : AbortWaitClosed(t)
    \/ \E t \in Tasks : AbortReturns(t)
    \/ \E t \in Tasks : CloseEnter(t)
    \/ \E t \in Tasks : CloseStream(t)
    \/ \E t \in Tasks : CloseWaitClosed(t)
    \/ \E t \in Tasks : CloseCancelPing(t)

NegotiationSpec == NegotiationInit /\ [][NegotiationNext]_vars

\* ------------------------------------------------- fragmented messages
(* The read loop on an accepted connection, with and without compression,  *)
(* receiving up to MaxFragmentFrames frames: fragments of plain and of      *)
(* compressed messages, and control frames that can come between them.      *)
MaxFragmentFrames == 3

FragmentFrames ==
    {Short(FALSE, FALSE, OpText, FALSE, <<65>>),
     Short(FALSE, FALSE, OpBinary, FALSE, <<65, 65>>),
     Short(FALSE, TRUE, OpBinary, FALSE, <<0, 2>>),
     Short(FALSE, FALSE, OpContinuation, FALSE, <<65>>),
     Short(TRUE, FALSE, OpContinuation, FALSE, <<65>>),
     Short(TRUE, FALSE, OpPing, FALSE, <<>>),
     Short(TRUE, FALSE, OpPing, FALSE, <<65>>),
     Short(TRUE, FALSE, OpPing, FALSE, <<65, 65>>),
     Short(TRUE, TRUE, OpPing, FALSE, <<65>>),
     Short(TRUE, FALSE, OpPong, FALSE, <<>>),
     Short(TRUE, FALSE, OpClose, FALSE, <<3, 233>>)}

FragmentRequests ==
    {PlainRequest,
     [PlainRequest EXCEPT !.extensions = <<Offer("permessage-deflate", {})>>,
                          !.compression_options = "{}"]}

FragmentInit ==
    /\ request \in FragmentRequests
    /\ codec = NoCodec
    /\ params = [ping_interval |-> NoneNum, ping_timeout |-> NoneNum,
                 compression |-> FALSE]
    /\ Unconnected

FragmentHeader(f) == counts.frames < MaxFragmentFrames /\ ReceiveHeader(f)

FragmentNext ==
    \/ AcceptConnection
    \/ StartPinging
    \/ OpenReturns
    \/ LoopHead
    \/ \E f \in FragmentFrames : FragmentHeader(f)
    \/ SizeCheck
    \/ OversizeAbort
    \/ ReadPayload
    \/ HandleData
    \/ OnMessageReturns
    \/ HandleClose
    \/ HandlePing
    \/ PongDrainReturns
    \/ HandlePong
    \/ CallbackReturns
    \/ LoopExit
    \/ ConnectionCleared
    \/ CallOnClose
    \/ OnCloseReturns
    \/ \E t \in Tasks : CloseEnter(t)
    \/ \E t \in Tasks : CloseDrainReturns(t)
    \/ \E t \in Tasks : CloseStream(t)
    \/ \E t \in Tasks : CloseWaitClosed(t)
    \/ \E t \in Tasks : CloseCancelPing(t)
    \/ \E t \in Tasks : AbortEnter(t)
    \/ \E t \in Tasks : AbortWaitClosed(t)
    \/ \E t \in Tasks : AbortReturns(t)

FragmentSpec == FragmentInit /\ [][FragmentNext]_vars

\* ------------------------------------------------- the keepalive task
(* The connection of a plain request under every ping setting, with an     *)
(* application that calls start_pinging() once more at any point, a peer   *)
(* that answers pings, closes or resets, and the keepalive task running.   *)
KeepaliveFrames ==
    {Short(TRUE, FALSE, OpPong, FALSE, <<>>),
     Short(TRUE, FALSE, OpClose, FALSE, <<3, 233>>)}

\* start_pinging called again on the connection
StartPingingAgain ==
    /\ CanCall
    /\ handler.ws_connection
    /\ counts' = [CountsAfterStart EXCEPT !.calls = @ + 1]
    /\ conn' = ConnAfterStart
    /\ pc' = [pc EXCEPT !["K"] = KeepaliveAfterStart]
    /\ UNCHANGED <<call, request, codec, params, handler, writer, running, frame, msg, wire, delivered, gmsg, obs>>

\* further (ping_interval, ping_timeout) settings: the interval 0 or unset
\* with and without a timeout, a timeout shorter than the interval, equal
\* to it, and unset
KeepaliveSettings ==
    PingSettings \cup {<<0, NoneNum>>, <<0, 2>>, <<NoneNum, 2>>, <<2, 1>>,
                       <<2, 2>>, <<2, NoneNum>>}

KeepaliveInit ==
    /\ request = PlainRequest
    /\ codec = NoCodec
    /\ params \in {[ping_interval |-> s[1], ping_timeout |-> s[2],
                     compression |-> FALSE] : s \in KeepaliveSettings}
    /\ Unconnected

KeepaliveNext ==
    \/ AcceptConnection
    \/ AcceptDrainReset
    \/ StartPinging
    \/ StartPingingAgain
    \/ OpenReturns
    \/ LoopHead
    \/ ReadReset
    \/ \E f \in KeepaliveFrames : ReadHeader(f)
    \/ SizeCheck
    \/ ReadPayload
    \/ HandleClose
    \/ HandlePong
    \/ CallbackReturns
    \/ LoopExit
    \/ ConnectionCleared
    \/ CallOnClose
    \/ OnCloseReturns
    \/ SendPing
    \/ PingDrainReturns
    \/ PingDrainReset
    \/ TimeoutCheck
    \/ PeerResets
    \/ \E t \in Tasks : CloseEnter(t)
    \/ \E t \in Tasks : CloseDrainReturns(t)
    \/ \E t \in Tasks : CloseDrainReset(t)
    \/ \E t \in Tasks : CloseMark(t)
    \/ \E t \in Tasks : CloseStream(t)
    \/ \E t \in Tasks : CloseWaitClosed(t)
    \/ \E t \in Tasks : CloseCancelPing(t)
    \/ \E t \in Tasks : AbortEnter(t)
    \/ \E t \in Tasks : AbortWaitClosed(t)
    \/ \E t \in Tasks : AbortReturns(t)

KeepaliveSpec == KeepaliveInit /\ [][KeepaliveNext]_vars

\* ------------------------------------------- failures of the two tasks
(* The connection of a plain request with the keepalive task running, a    *)
(* peer that sends a text message or a pong, or resets the connection, and *)
(* an application whose on_message returns or raises.                      *)
FailureFrames ==
    {Short(TRUE, FALSE, OpText, FALSE, <<65>>),
     Short(TRUE, FALSE, OpPong, FALSE, <<>>)}

FailureInit ==
    /\ request = PlainRequest
    /\ codec = NoCodec
    /\ params \in {[ping_interval |-> s[1], ping_timeout |-> s[2],
                     compression |-> FALSE] : s \in PingSettings}
    /\ Unconnected

FailureNext ==
    \/ AcceptConnection
    \/ AcceptDrainReset
    \/ StartPinging
    \/ OpenReturns
    \/ LoopHead
    \/ ReadReset
    \/ \E f \in FailureFrames : ReadHeader(f)
    \/ SizeCheck
    \/ ReadPayload
    \/ HandleData
    \/ OnMessageReturns
    \/ \E exc \in OnMessageExceptions : OnMessageRaises(exc)
    \/ HandlePong
    \/ CallbackReturns
    \/ LoopExit
    \/ ConnectionCleared
    \/ CallOnClose
    \/ OnCloseReturns
    \/ TransportClosedAfterCrash
    \/ SendPing
    \/ PingDrainReturns
    \/ PingDrainReset
    \/ TimeoutCheck
    \/ PeerResets
    \/ \E t \in Tasks : CloseEnter(t)
    \/ \E t \in Tasks : CloseDrainReturns(t)
    \/ \E t \in Tasks : CloseDrainReset(t)
    \/ \E t \in Tasks : CloseMark(t)
    \/ \E t \in Tasks : CloseStream(t)
    \/ \E t \in Tasks : CloseWaitClosed(t)
    \/ \E t \in Tasks : CloseCancelPing(t)
    \/ \E t \in Tasks : AbortEnter(t)
    \/ \E t \in Tasks : AbortWaitClosed(t)
    \/ \E t \in Tasks : AbortReturns(t)

FailureSpec == FailureInit /\ [][FailureNext]_vars

\* ------------------------------------------- control frames of the application
(* The connection of a plain request on which the application sends a ping *)
(* with 0, 125 or 126 bytes of data or closes with a reason that fits a    *)
(* control frame or does not, while the peer sends pings and closes.       *)
ControlData == {<<>>, [i \in 1..125 |-> 65], [i \in 1..126 |-> 65]}

ControlCloseArgs == {<<1001, "bye">>, <<1001, LongReason>>}

ControlSpecFrames ==
    {Short(TRUE, FALSE, OpPing, FALSE, <<65>>),
     Short(TRUE, FALSE, OpClose, FALSE, <<3, 233>>)}

ControlInit ==
    /\ request = PlainRequest
    /\ codec = NoCodec
    /\ params = [ping_interval |-> NoneNum, ping_timeout |-> NoneNum,
                 compression |-> FALSE]
    /\ Unconnected

ControlNext ==
    \/ AcceptConnection
    \/ StartPinging
    \/ OpenReturns
    \/ LoopHead
    \/ \E f \in ControlSpecFrames : ReadHeader(f)
    \/ SizeCheck
    \/ ReadPayload
    \/ HandleClose
    \/ HandlePing
    \/ PongDrainReturns
    \/ CallbackReturns
    \/ LoopExit
    \/ ConnectionCleared
    \/ CallOnClose
    \/ OnCloseReturns
    \/ \E data \in ControlData : HandlerPingData(data)
    \/ HandlerDrainReturns
    \/ \E a \in ControlCloseArgs : HandlerClose(a[1], a[2])
    \/ HandlerCloseReturns
    \/ \E t \in Tasks : CloseRaises(t)
    \/ \E t \in Tasks : CloseEnter(t)
    \/ \E t \in Tasks : CloseDrainReturns(t)
    \/ \E t \in Tasks : CloseStream(t)
    \/ \E t \in Tasks : CloseWaitClosed(t)
    \/ \E t \in Tasks : CloseCancelPing(t)
    \/ \E t \in Tasks : AbortEnter(t)
    \/ \E t \in Tasks : AbortWaitClosed(t)
    \/ \E t \in Tasks : AbortReturns(t)

ControlSpec == ControlInit /\ [][ControlNext]_vars

\* ------------------------------------------- the application's write calls
(* The connection with an application that also sends: write_message and   *)
(* ping calls at any point, while the peer sends frames of a few kinds (a   *)
(* text message, a compressed message, a ping, a pong and a close frame).  *)
CallFrames ==
    {Short(TRUE, FALSE, OpText, FALSE, <<65>>),
     Short(TRUE, TRUE, OpBinary, FALSE, <<0, 2, 65>>),
     Short(TRUE, FALSE, OpPing, FALSE, <<>>),
     Short(TRUE, FALSE, OpPong, FALSE, <<>>),
     Short(TRUE, FALSE, OpClose, FALSE, <<3, 233>>)}

CallNext ==
    \/ RejectHandshake
    \/ ErrorDrainReturns
    \/ ErrorDrainReset
    \/ ErrorWaitClosed
    \/ AcceptConnection
    \/ AcceptRaises
    \/ AcceptDrainReset
    \/ StartPinging
    \/ OpenReturns
    \/ OpenRaises
    \/ LoopHead
    \/ ReadReset
    \/ ReadEof
    \/ \E f \in CallFrames : ReadHeader(f)
    \/ SizeCheck
    \/ ReadPayload
    \/ HandleData
    \/ OnMessageReturns
    \/ HandleClose
    \/ HandlePing
    \/ PongDrainReturns
    \/ PongDrainReset
    \/ CallOnPing
    \/ HandlePong
    \/ CallbackReturns
    \/ LoopExit
    \/ ConnectionCleared
    \/ CallOnClose
    \/ OnCloseReturns
    \/ TransportClosedAfterCrash
    \/ SendPing
    \/ PingDrainReturns
    \/ PingDrainReset
    \/ TimeoutCheck
    \/ \E a \in CloseArgs : HandlerClose(a[1], a[2])
    \/ HandlerCloseReturns
    \/ \E binary \in BOOLEAN : HandlerWriteMessage(binary)
    \/ HandlerPing
    \/ HandlerDrainReturns
    \/ HandlerDrainReset
    \/ PeerResets
    \/ PeerEndsStream
    \/ \E t \in Tasks : CloseEnter(t)
    \/ \E t \in Tasks : CloseDrainReturns(t)
    \/ \E t \in Tasks : CloseDrainReset(t)
    \/ \E t \in Tasks : CloseMark(t)
    \/ \E t \in Tasks : CloseStream(t)
    \/ \E t \in Tasks : CloseWaitClosed(t)
    \/ \E t \in Tasks : CloseCancelPing(t)
    \/ \E t \in Tasks : AbortEnter(t)
    \/ \E t \in Tasks : AbortWaitClosed(t)
    \/ \E t \in Tasks : AbortReturns(t)

CallSpec == Init /\ [][CallNext]_vars

\* ------------------------------------------------------ the codec functions
(* The compressor, the decompressor and the masking function on their own, *)
(* applied to inputs drawn from small sets.  A persistent context keeps    *)
(* the previous message as its window, and a message equal to the window   *)
(* is sent as the back reference <<0, 0, 1>>, which only a decompressor    *)
(* holding the same window can resolve.                                    *)
program == <<call, request, params, conn, handler, writer, pc, running, frame,
             msg, wire, delivered, counts, gmsg, obs>>

WindowBits == 8..15

CodecPayloads ==
    {<<>>, <<65>>, <<0>>, <<65, 65>>, <<66, 65, 65>>,
     Repeat(65, MaxMessageSize), Repeat(65, MaxMessageSize + 1)}

MaskKeys == {<<0, 0, 0, 0>>, <<1, 2, 3, 4>>, <<255, 0, 170, 85>>}

MaskData == {<<>>, <<65>>, <<1, 2, 3, 4, 5>>, <<255, 255, 255, 255, 254, 253>>}

BackReference == <<0, 0, 1>>

\* what a persistent context remembers after a message
WindowAfter(persistent, window, data) ==
    IF ~persistent THEN NoneBytes
    ELSE IF data = <<>> THEN window ELSE data

\* compressobj.compress(data) + flush(Z_SYNC_FLUSH) of a context
ZlibCompressWith(window, data) ==
    IF window # NoneBytes /\ data = window /\ Len(data) >= 2
    THEN BackReference \o SyncMarker
    ELSE ZlibCompress(data)

\* decompressobj.decompress(data, max_length) of a context
ZlibDecompressWith(window, data, max_length) ==
    IF window # NoneBytes /\ Take(data, 3) = BackReference
    THEN InflateFrom(RunLength(window) \o Drop(data, 3), <<>>, max_length)
    ELSE InflateFrom(data, <<>>, max_length)

\* zlib.compressobj(level, DEFLATED, -w, mem_level) returns a compressor:
\* zlib from 1.2.9 on refuses a raw deflate window of 2^8, older versions
\* use 2^9 instead
ZlibAccepts(w, refuses8) == ~(refuses8 /\ w = 8)

\* _PerMessageDeflateCompressor.__init__ and
\* _PerMessageDeflateDecompressor.__init__ for one direction of a connection
CodecCreate(w, persistent, refuses8) ==
    /\ codec.op = "none"
    /\ codec' = IF persistent /\ ~ZlibAccepts(w, refuses8)
                THEN [codec EXCEPT !.op = "failed", !.exc = "ValueError",
                                   !.w = w, !.persistent = persistent,
                                   !.refuses8 = refuses8]
                ELSE [codec EXCEPT !.op = "ready", !.w = w,
                                   !.persistent = persistent,
                                   !.refuses8 = refuses8]
    /\ UNCHANGED program

\* _PerMessageDeflateCompressor.compress
CodecCompress(p) ==
    /\ codec.op \in {"ready", "decompressed"}
    /\ codec.n < MaxMessages
    /\ codec' = IF ~ZlibAccepts(codec.w, codec.refuses8)
                THEN [codec EXCEPT !.op = "failed", !.exc = "ValueError",
                                   !.sent = p]
                ELSE [codec EXCEPT
                        !.op = "compressed", !.sent = p, !.n = @ + 1,
                        !.data = SubSeq(ZlibCompressWith(codec.cwindow, p), 1,
                                        Len(ZlibCompressWith(codec.cwindow, p)) - 4),
                        !.cwindow = WindowAfter(codec.persistent, @, p)]
    /\ UNCHANGED program

\* _PerMessageDeflateDecompressor.decompress of a context
DecompressorDecompressWith(window, data) ==
    LET z == ZlibDecompressWith(window, data \o SyncMarker, MaxMessageSize)
    IN IF z.err THEN [exc |-> "zlib.error", result |-> <<>>]
       ELSE IF z.tail # <<>>
       THEN [exc |-> "_DecompressTooLargeError", result |-> <<>>]
       ELSE [exc |-> "", result |-> z.out]

CodecDecompress ==
    /\ codec.op = "compressed"
    /\ LET d == DecompressorDecompressWith(codec.dwindow, codec.data)
       IN codec' = IF d.exc # ""
                   THEN [codec EXCEPT !.op = "failed", !.exc = d.exc]
                   ELSE [codec EXCEPT
                           !.op = "decompressed", !.out = d.result,
                           !.dwindow = WindowAfter(codec.persistent, @, d.result)]
    /\ UNCHANGED program

\* the peer masks a payload with its key
CodecMask(key, data) ==
    /\ codec.op = "none"
    /\ codec' = [codec EXCEPT !.op = "masked", !.key = key, !.sent = data,
                              !.data = WebsocketMask(key, data)]
    /\ UNCHANGED program

\* _receive_frame: the payload of a masked frame is unmasked with the key
\* read from the frame
CodecUnmask ==
    /\ codec.op = "masked"
    /\ codec' = [codec EXCEPT !.op = "unmasked",
                              !.out = WebsocketMask(codec.key, codec.data)]
    /\ UNCHANGED program

\* payload lengths around the limits of the three encodings
FrameLengths == {0, 1, 125, 126, 127, 65535, 65536, 65537, 2147483647}

\* _write_frame: a control frame that is fragmented or longer than 125
\* bytes is refused, any other frame gets its length encoded
CodecWriteFrame(fin, opcode, data_len, mask_outgoing) ==
    /\ codec.op = "none"
    /\ codec' = IF WriteFrameRaises(fin, opcode, data_len)
                THEN [codec EXCEPT !.op = "refused", !.exc = "ValueError",
                                   !.opcode = opcode, !.len = data_len]
                ELSE [codec EXCEPT
                        !.op = "framed", !.opcode = opcode, !.len = data_len,
                        !.data = EncodeLength(data_len,
                                              IF mask_outgoing THEN 128 ELSE 0)]
    /\ UNCHANGED program

\* _receive_frame reads the length of the frame written
CodecReadLength ==
    /\ codec.op = "framed"
    /\ codec' = [codec EXCEPT !.op = "length_read",
                              !.out = <<DecodeLength(codec.data)>>]
    /\ UNCHANGED program

CodecInit ==
    /\ request = NoRequest
    /\ codec = NoCodec
    /\ params = [ping_interval |-> NoneNum, ping_timeout |-> NoneNum,
                 compression |-> FALSE]
    /\ Unconnected

CodecNext ==
    \/ \E w \in WindowBits, persistent \in BOOLEAN, refuses8 \in BOOLEAN :
          CodecCreate(w, persistent, refuses8)
    \/ \E p \in CodecPayloads : CodecCompress(p)
    \/ CodecDecompress
    \/ \E key \in MaskKeys, data \in MaskData : CodecMask(key, data)
    \/ CodecUnmask
    \/ \E fin \in BOOLEAN, opcode \in {OpText, OpBinary, OpPing, OpClose},
          data_len \in FrameLengths, mask_outgoing \in BOOLEAN :
          CodecWriteFrame(fin, opcode, data_len, mask_outgoing)
    \/ CodecReadLength

CodecSpec == CodecInit /\ [][CodecNext]_vars


\* ----------------------------------------------------------- observations
\* the read loop is back at its head after a frame
AtLoop == Top("R") = "loop" /\ obs.busy

\* the postcondition of _abort
Aborted == conn.client_terminated /\ conn.server_terminated /\ writer.closing

\* the frames the read loop wrote while it processed the current frame
WrittenForFrame == {i \in (obs.wire0 + 1)..Len(wire) : wire[i].by = "R"}

\* the on_message calls made for the current frame
DeliveredForFrame == (obs.delivered0 + 1)..Len(delivered)

CloseFrames == {i \in DOMAIN wire : wire[i].opcode = OpClose}

IsCloseFrame(e, code, reason) ==
    e.opcode = OpClose /\ e.data = Pack16(code) /\ e.reason = reason

\* the frame was refused by the header checks, before its length counted
HeaderViolation == obs.viols \cap {"reserved bit", "control length"} # {}

\* the keepalive task timed out and closed, and nothing else happened
KeepaliveClosedSilentPeer ==
    /\ Top("K") = "k_done"
    /\ running = "none"
    /\ counts.frames = 0 /\ counts.calls = 0 /\ writer.peer = "open"
    /\ Top("R") = "read_header"

\* ------------------------------------------------------------------ claims

\* C1: on_message calls of one connection never overlap and follow the order
\* of the final frames: a call that has not returned is the latest one, the
\* read loop is suspended in it (so it reads no frame), and earlier calls
\* belong to earlier frames.
C1_OnMessageSequential ==
    /\ \A i \in DOMAIN delivered :
        ~delivered[i].returned => i = Len(delivered) /\ Top("R") = "on_message"
    /\ \A i, j \in DOMAIN delivered : i < j => delivered[i].fid < delivered[j].fid

\* two messages, the first on_message returned, the second still running
C1_Witness ==
    /\ Len(delivered) = 2
    /\ delivered[1].returned /\ ~delivered[2].returned
    /\ Top("R") = "on_message"

C3_OversizeAlwaysAnswered ==
    (AtLoop /\ obs.oversize) =>
      /\ \E i \in WrittenForFrame : IsCloseFrame(wire[i], 1009, "message too big")
      /\ Aborted
      /\ ~obs.payload_read
      /\ DeliveredForFrame = {}

\* C3: a frame that passes the header checks and whose declared length plus
\* the buffered bytes exceeds max_message_size makes the read loop call
\* close(1009, "message too big") and abort, its payload unread and nothing
\* delivered; the close frame is written unless the server has already sent
\* its close frame or the stream is already closing.
C3_OversizeClosed ==
    (AtLoop /\ obs.oversize /\ ~HeaderViolation) =>
      /\ obs.size_checked
      /\ ~obs.payload_read
      /\ IF obs.closable
         THEN /\ Cardinality(WrittenForFrame) = 1
              /\ \A i \in WrittenForFrame :
                    IsCloseFrame(wire[i], 1009, "message too big")
         ELSE WrittenForFrame = {}
      /\ Aborted
      /\ DeliveredForFrame = {}

\* a continuation that fits on its own but not with the buffered bytes has
\* been answered with the close frame
C3_Witness ==
    /\ AtLoop /\ obs.oversize /\ obs.closable
    /\ obs.role \in {"middle", "last"}
    /\ \E i \in WrittenForFrame : IsCloseFrame(wire[i], 1009, "message too big")
    /\ Aborted

ViolationAborts ==
    /\ obs.viols # {}
    /\ ~(obs.oversize /\ ~HeaderViolation)
    /\ ~(obs.viols = {"opcode"} /\ obs.role = "first")
    /\ ~(obs.viols = {"utf8"} /\ obs.interleaved)

C6_EofAborts ==
    (Top("R") = "crashed" /\ obs.eof) =>
      /\ Aborted
      /\ ~conn.ping_coroutine
      /\ handler.on_close_called

\* C7: a close frame that arrives before the server has sent one is
\* answered by the read loop with exactly one close frame carrying the
\* received code (none if none was received), the connection is terminated
\* on both sides and the stream closed; the read task does not end before
\* the delegate has been told the received code.
C7_CloseFrameAnswered ==
    (/\ obs.busy /\ obs.role = "control" /\ obs.expect.opcode = OpClose
     /\ obs.handled /\ obs.closable
     /\ Top("R") \in {"loop", "r_done"}) =>
      /\ Cardinality(WrittenForFrame) = 1
      /\ \A i \in WrittenForFrame :
            /\ wire[i].opcode = OpClose
            /\ wire[i].data = (IF Len(obs.expect.data) >= 2
                               THEN Take(obs.expect.data, 2) ELSE <<>>)
      /\ Aborted
      /\ Top("R") = "r_done" =>
            /\ handler.on_close_called
            /\ Len(obs.expect.data) >= 2 =>
                  handler.close_code = Unpack16(obs.expect.data)

\* C8: at most one close frame is written on a connection.
C8_AtMostOneCloseFrame == Cardinality(CloseFrames) <= 1

\* C9: with a ping interval and a ping timeout, as long as no pong has
\* arrived the keepalive task sends at most one ping and never waits for a
\* next one; when it has finished it has sent exactly one ping and closed,
\* and the close frame it writes carries 1000 and "ping timed out".
C9_TimeoutAfterOnePing ==
    (PingInterval > 0 /\ PingTimeout > 0 /\ counts.pongs = 0) =>
      /\ counts.pings <= 1
      /\ Top("K") # "k_sleep_next"
      /\ Top("K") = "k_done" => counts.pings = 1 /\ conn.server_terminated
      /\ \A i \in DOMAIN wire :
            (wire[i].by = "K" /\ wire[i].opcode = OpClose) =>
               /\ IsCloseFrame(wire[i], 1000, "ping timed out")
               /\ \E j \in 1..(i - 1) : wire[j].by = "K" /\ wire[j].opcode = OpPing

\* the keepalive task has sent its ping, timed out, written the close frame
\* and finished
C9_Witness ==
    /\ PingInterval > 0 /\ PingTimeout > 0 /\ counts.pongs = 0
    /\ Top("K") = "k_done"
    /\ counts.pings = 1
    /\ \E i \in DOMAIN wire : wire[i].by = "K" /\ IsCloseFrame(wire[i], 1000, "ping timed out")

\* C10: when the keepalive task has closed a connection whose peer is
\* silent and every task is waiting, the stream is closed and on_close has
\* been called.
C10_SilentPeerClosed ==
    KeepaliveClosedSilentPeer => writer.closing /\ handler.on_close_called

\* C11: a write_message or ping call made while the handler has no
\* connection, or while either side has terminated or the stream is
\* closing, raises WebSocketClosedError and writes no frame.
C11_ClosedCallsRaise ==
    (call.kind \in {"write_message", "ping"} /\ call.unusable) =>
        call.result = "WebSocketClosedError" /\ call.written = 0

\* write_message was called on an upgraded connection whose stream is still
\* open but whose server side has sent its close frame, and has raised
C11_Witness ==
    /\ call.kind = "write_message"
    /\ call.unusable
    /\ call.result = "WebSocketClosedError"
    /\ handler.ws_connection
    /\ conn.server_terminated
    /\ ~writer.closing

\* C12: a connection reset during a write made for a write_message or ping
\* call never reaches the caller as ConnectionResetError.
C12_ResetRaisedAsClosed ==
    call.kind \in {"write_message", "ping"} =>
        call.result # "ConnectionResetError"

\* get() has answered the upgrade request, whose headers are still known
Answered == Top("R") # "get" /\ request # NoRequest

\* the request passes every check of the handshake
Acceptable(r) ==
    /\ UpgradeOk(r) /\ ConnectionOk(r) /\ OriginOk(r)
    /\ VersionOk(r) /\ RequiredHeadersOk(r)

\* C13: once a request that fails a check of the handshake is answered,
\* exactly one response has been written and it is a 400 (bad Upgrade or
\* Connection or a required header missing), a 403 (origin) or a 426
\* (version, with the Sec-WebSocket-Version header); the keepalive task was
\* not started, open was not called, no frame was read and no message
\* delivered; and when get() has ended the stream is closed.
C13_RejectedHandshake ==
    (Answered /\ ~Acceptable(request)) =>
        /\ writer.responses = 1
        /\ writer.status \in {400, 403, 426}
        /\ writer.status = 400 =>
              \/ ~UpgradeOk(request) \/ ~ConnectionOk(request)
              \/ ~RequiredHeadersOk(request)
        /\ writer.status = 403 => ~OriginOk(request)
        /\ writer.status = 426 =>
              /\ ~VersionOk(request)
              /\ "Sec-WebSocket-Version" \in writer.headers
        /\ Top("K") = "k_none" /\ ~conn.ping_coroutine
        /\ handler.open = "no"
        /\ counts.frames = 0 /\ delivered = <<>> /\ counts.on_close = 0
        /\ Top("R") \in EndLabels => writer.closing

\* a request with an unsupported version was answered with 426 and get()
\* has returned
C13_Witness ==
    /\ Answered
    /\ ~VersionOk(request)
    /\ writer.status = 426
    /\ Top("R") = "r_done"
    /\ writer.closing

\* C14: a request that passes the Upgrade, Connection and Origin checks and
\* lacks Host, Sec-WebSocket-Key or Sec-WebSocket-Version (missing or
\* empty) is answered with 400.
C14_MissingHeaderIs400 ==
    (/\ Answered
     /\ UpgradeOk(request) /\ ConnectionOk(request) /\ OriginOk(request)
     /\ ~RequiredHeadersOk(request)) =>
        writer.status = 400

\* C15: a request with an origin header whose Upgrade and Connection
\* headers are accepted is answered with 403 exactly if the origin's
\* host:port and the Host header differ when compared without regard to
\* case; a request with no origin header is not answered with 403.
C15_OriginComparedIgnoringCase ==
    (Answered /\ UpgradeOk(request) /\ ConnectionOk(request)) =>
        IF OriginOf(request) = NoneBytes THEN writer.status # 403
        ELSE writer.status = 403 <=>
                ~(/\ request.host # NoneBytes
                  /\ Lower(UrlNetloc(OriginOf(request))) = Lower(request.host))

\* the positions of the read loop and of the callbacks it awaits
LoopLabels ==
    {"loop", "loop_exit", "size_check", "handle_message", "on_message", "on_ping",
     "on_pong", "pong_drain"} \cup ReadLabels

\* C16: the keepalive task is started only after the 101 response is
\* written, and it has been started (if an interval is set) by the time
\* open() is awaited; until open() has returned no frame is read and no
\* callback is awaited; if open() raises the connection is aborted and the
\* read loop is never entered.
C16_HandshakeOrder ==
    /\ (Top("K") # "k_none" \/ conn.ping_coroutine) =>
          /\ writer.status = 101 /\ writer.responses = 1
          /\ Top("R") \notin {"get", "accept_drain"}
    /\ (Top("R") = "open" \/ handler.open # "no") =>
          /\ writer.status = 101
          /\ PingInterval > 0 => Top("K") # "k_none"
    /\ handler.open # "returned" =>
          /\ counts.frames = 0 /\ counts.pongs = 0 /\ delivered = <<>>
          /\ \A i \in DOMAIN pc["R"] : pc["R"][i].l \notin LoopLabels
    /\ (handler.open = "raised" /\ Top("R") \in EndLabels) => Aborted

\* open() has raised, the connection was aborted and get() has returned
\* without reading a frame
C16_Witness ==
    /\ handler.open = "raised"
    /\ Top("R") = "r_done"
    /\ Aborted
    /\ counts.frames = 0

\* C17: on_close is called at most once, and when the read loop has ended
\* and get() has returned it has been called exactly once, the handler's
\* close_code and close_reason being those of the protocol.
C17_OnCloseExactlyOnce ==
    /\ counts.on_close <= 1
    /\ (handler.open = "returned" /\ Top("R") = "r_done") =>
          /\ counts.on_close = 1
          /\ handler.close_code = conn.close_code
          /\ handler.close_reason = conn.close_reason

\* C18: a handler without compression options answers with no
\* Sec-WebSocket-Extensions header and agrees on no compression; on a
\* connection without compression every frame written has RSV1 clear and
\* carries its payload as it is, and a received frame with RSV1 set aborts
\* the connection; on a connection with permessage-deflate every data frame
\* written has RSV1 set and carries the compressed message, which inflates
\* to the message, and control frames are written with RSV1 clear.
C18_CompressionAsNegotiated ==
    /\ (Answered /\ request.compression_options = "None") =>
          /\ "Sec-WebSocket-Extensions" \notin writer.headers
          /\ ~params.compression
    /\ ~params.compression =>
          /\ \A i \in DOMAIN wire :
                ~wire[i].rsv1 /\ wire[i].data = wire[i].plain
          /\ (AtLoop /\ obs.rsv1) => Aborted
    /\ params.compression =>
          /\ "Sec-WebSocket-Extensions" \in writer.headers
          /\ \A i \in DOMAIN wire :
                IF IsControl(wire[i].opcode)
                THEN ~wire[i].rsv1 /\ wire[i].data = wire[i].plain
                ELSE /\ wire[i].rsv1
                     /\ wire[i].data # wire[i].plain
                     /\ DecompressorDecompress(wire[i].data) =
                           [exc |-> "", result |-> wire[i].plain]

\* on a connection with permessage-deflate the application has sent a
\* message and the keepalive or the read loop a control frame
C18_Witness ==
    /\ params.compression
    /\ \E i \in DOMAIN wire :
          /\ wire[i].by = "D" /\ wire[i].opcode = OpText /\ wire[i].rsv1
          /\ wire[i].data = <<0, 2, 65>>
    /\ \E i \in DOMAIN wire : IsControl(wire[i].opcode) /\ ~wire[i].rsv1

\* C19: with every window size from 8 to 15, in a context that is kept
\* between messages or not, compressing a payload and decompressing the
\* result raises nothing and gives the payload back, for each message in
\* order.
C19_CompressRoundTrip ==
    /\ codec.op # "failed"
    /\ codec.op = "decompressed" => codec.out = codec.sent

\* bit j of byte x
Bit(x, j) == (x \div (2 ^ j)) % 2

\* C20: the masked payload has the length of the payload and each of its
\* bytes is the payload's byte XOR the key byte at its index modulo 4, and
\* unmasking the masked payload with the same key gives the payload back.
C20_MaskIsXorInvolution ==
    codec.op \in {"masked", "unmasked"} =>
        /\ Len(codec.data) = Len(codec.sent)
        /\ \A i \in DOMAIN codec.sent : \A j \in 0..7 :
              Bit(codec.data[i], j) =
                 (Bit(codec.sent[i], j) + Bit(codec.key[((i - 1) % 4) + 1], j)) % 2
        /\ codec.op = "unmasked" => codec.out = codec.sent

\* a payload longer than the key was masked into different bytes and
\* unmasked again
C20_Witness ==
    /\ codec.op = "unmasked"
    /\ Len(codec.sent) > 4
    /\ codec.data # codec.sent
    /\ codec.out = codec.sent

\* C21: a frame written with a payload of n bytes carries n in the 7-bit
\* field when n <= 125, the marker 126 and n as a 16-bit big-endian number
\* when 126 <= n <= 65535, the marker 127 and n as a 64-bit big-endian
\* number when n >= 65536, and the length read back from those bytes is n
C21_LengthRoundTrip ==
    codec.op \in {"framed", "length_read"} =>
        LET n == codec.len
            h == codec.data
            marker == h[1] % 128
        IN  /\ n <= 125 => Len(h) = 1 /\ marker = n
            /\ (n >= 126 /\ n <= 65535) =>
                   /\ Len(h) = 3 /\ marker = 126
                   /\ (h[2] * 256) + h[3] = n
            /\ n >= 65536 =>
                   /\ Len(h) = 9 /\ marker = 127
                   /\ \A i \in 2..5 : h[i] = 0
                   /\ (((((h[6] * 256) + h[7]) * 256) + h[8]) * 256) + h[9] = n
            /\ codec.op = "length_read" => codec.out = <<n>>

C21_Witness ==
    /\ codec.op = "length_read"
    /\ codec.len = 65536
    /\ Len(codec.data) = 9
    /\ codec.out = <<65536>>

\* the parameter of the accepted offer as the client wrote it
OfferedParameter(key) ==
    {p \in request.extensions[FirstDeflate(request)].params : p.k = key}

\* C22: with compression negotiated, the Sec-WebSocket-Extensions header of
\* the 101 response contains client_max_window_bits only if the client
\* offered it with a value, and then with that value; offered without a
\* value it is not echoed
C22_WindowBitsEchoedOnlyWithValue ==
    (writer.status = 101 /\ params.compression /\ request # NoRequest) =>
        /\ "Sec-WebSocket-Extensions" \in writer.headers
        /\ writer.extensions.name = "permessage-deflate"
        /\ \A e \in writer.extensions.params :
              e.k = "client_max_window_bits" =>
                  /\ e.v # "None"
                  /\ \E p \in OfferedParameter("client_max_window_bits") :
                        p.v = e.v
        /\ (\A p \in OfferedParameter("client_max_window_bits") : p.v = "None")
              => \A e \in writer.extensions.params :
                    e.k # "client_max_window_bits"

C22_Witness ==
    /\ writer.status = 101
    /\ params.compression
    /\ request # NoRequest
    /\ \E p \in OfferedParameter("client_max_window_bits") : p.v = "None"
    /\ \E e \in writer.extensions.params : e.k = "server_max_window_bits"

\* the frame being handled is a ping, a pong or a close frame
HandlingControl == Top("R") = "handle_message" /\ obs.role = "control"

\* the frame being handled completes a data message that the peer's
\* compression state (the RSV1 bit of its first frame) lets inflate
HandlingMessage ==
    /\ Top("R") = "handle_message"
    /\ obs.role \in {"single", "last"}
    /\ obs.inflate = "ok"

\* C23: with compression negotiated, a completed message is decompressed
\* exactly when the RSV1 bit of its first frame was set, whatever
\* continuation and control frames came in between, once, on the reassembled
\* payload; the payload of a control frame is never decompressed
C23_DecompressionByFirstFrame ==
    params.compression =>
        /\ HandlingControl => ~conn.frame_compressed
        /\ HandlingMessage =>
              /\ Inflated.exc = ""
              /\ Inflated.result = obs.expect.data

\* C23 without the two cases the code gets wrong: a control frame between
\* the fragments, and a control frame that carries RSV1
C23_DecompressionUninterrupted ==
    params.compression =>
        /\ (HandlingControl /\ ~obs.rsv1) => ~conn.frame_compressed
        /\ (HandlingMessage /\ ~obs.interleaved) =>
              /\ Inflated.exc = ""
              /\ Inflated.result = obs.expect.data

\* a compressed message in two fragments is inflated as a whole
C23_Uninterrupted ==
    /\ params.compression
    /\ HandlingMessage
    /\ obs.role = "last"
    /\ ~obs.interleaved
    /\ conn.frame_compressed
    /\ Inflated.result = <<65, 65>>

\* a compressed message with a ping between its fragments is handed over
\* as it came
C23_Interrupted ==
    /\ params.compression
    /\ HandlingMessage
    /\ obs.role = "last"
    /\ obs.interleaved
    /\ ~conn.frame_compressed
    /\ obs.expect.data = <<65, 65>>
    /\ Inflated.result = <<0, 2, 65>>

\* C24: a ping, pong or close frame leaves the fragment buffer and the
\* buffered opcode as they were: while the peer is inside a fragmented
\* message the buffer holds the fragments sent so far and the opcode of the
\* first one, whatever control frames came in between, and the message
\* reassembled at the final fragment has the same bytes and opcode as
\* without them
C24_ControlFramesKeepFragments ==
    /\ gmsg.active =>
          /\ conn.fragmented_message_buffer = gmsg.concat
          /\ conn.fragmented_message_opcode = gmsg.opcode
    /\ ~gmsg.active => conn.fragmented_message_buffer = NoneBytes
    /\ (Top("R") = "handle_message" /\ obs.role = "last" /\ ~params.compression)
          => msg = obs.expect

\* a binary message of two fragments with a ping between them
C24_Witness ==
    /\ Top("R") = "handle_message"
    /\ obs.role = "last"
    /\ obs.interleaved
    /\ ~params.compression
    /\ msg = [opcode |-> OpBinary, data |-> <<65, 65, 65>>]
    /\ \E i \in DOMAIN wire : wire[i].opcode = OpPong

\* the frame just processed is a final ping without RSV1, of at most 125
\* bytes and not longer than max_message_size
PingProcessed ==
    /\ AtLoop
    /\ obs.role = "control"
    /\ obs.expect.opcode = OpPing
    /\ obs.viols = {}
    /\ ~obs.rsv1
    /\ Len(obs.expect.data) <= MaxMessageSize

\* a pong with the ping's payload was written and on_ping was called
PingAnswered ==
    /\ obs.handled
    /\ \E i \in WrittenForFrame :
          wire[i].opcode = OpPong /\ wire[i].data = obs.expect.data

\* C25: every final ping of at most 125 bytes that is not itself longer
\* than max_message_size, received while the client has not terminated, also
\* between the fragments of a message and whatever is buffered, is answered
\* with a pong of the same payload and handed to on_ping before the next
\* frame is read
C25_PingAlwaysAnswered == (PingProcessed /\ writer.peer = "open") => PingAnswered

\* C25 for pings that fit into max_message_size together with the
\* fragments buffered so far
C25_PingAnsweredWithinLimit ==
    (PingProcessed /\ writer.peer = "open" /\ ~obs.oversize) => PingAnswered

\* a ping between two fragments is answered
C25_AnsweredBetweenFragments ==
    PingProcessed /\ gmsg.active /\ ~obs.oversize /\ PingAnswered

\* a ping between two fragments closes the connection with 1009
C25_RefusedBetweenFragments ==
    /\ PingProcessed
    /\ gmsg.active
    /\ obs.oversize
    /\ ~PingAnswered
    /\ Aborted
    /\ \E i \in WrittenForFrame : IsCloseFrame(wire[i], 1009, "message too big")

\* the header of the frame being processed sets a reserved bit it may not
\* set: RSV2 or RSV3, or RSV1 on anything but the first frame of a data
\* message on a connection with compression
ForbiddenBits ==
    /\ obs.busy
    /\ \/ "reserved bit" \in obs.viols
       \/ obs.rsv1 /\ ~(params.compression /\ obs.role \in {"single", "first", "intruder"})

\* the frame was refused at its header: nothing after it was read
RefusedAtHeader ==
    /\ frame = NoFrame
    /\ ~obs.size_checked /\ ~obs.payload_read /\ ~obs.handled
    /\ AtLoop => Aborted

\* C26: a frame gets past its two header bytes only with RSV2 and RSV3
\* clear, and with RSV1 clear unless compression was negotiated and the
\* frame is the first frame of a data message; any other frame aborts the
\* connection before a length, mask or payload byte is read
C26_ReservedBitsRefused == ForbiddenBits => RefusedAtHeader

\* C26 for every frame but a control frame with RSV1 on a connection with
\* compression
C26_ReservedBitsRefusedOnData ==
    (ForbiddenBits /\ ~(params.compression /\ obs.role = "control")) => RefusedAtHeader

\* a continuation frame with RSV1 on a connection with compression is
\* refused
C26_ContinuationRefused ==
    /\ ForbiddenBits
    /\ params.compression
    /\ obs.role \in {"stray", "middle", "last"}
    /\ AtLoop
    /\ RefusedAtHeader

\* a ping with RSV1 on a connection with compression is answered
C26_ControlAccepted ==
    /\ ForbiddenBits
    /\ params.compression
    /\ obs.role = "control"
    /\ obs.handled
    /\ \E i \in WrittenForFrame : wire[i].opcode = OpPong

\* task t is inside the close() that _abort awaits
InAbortClose(t) == Len(pc[t]) >= 2 /\ pc[t][2].l = "abort_return"

\* cancel() has been called on the keepalive task, if there was one, and
\* the reference is cleared
KeepaliveCancelled ==
    /\ ~conn.ping_coroutine
    /\ Top("K") \in EndLabels \/ conn.must_cancel

\* C27: when _abort completes, in whatever state and task it was called,
\* client_terminated and server_terminated are true, the stream is closed
\* and the keepalive task is cancelled; the close() inside _abort writes no
\* frame
C27_AbortPostcondition ==
    \A t \in Tasks :
        /\ Top(t) = "abort_return" => Aborted /\ KeepaliveCancelled
        /\ InAbortClose(t) => Top(t) # "close_drain"

\* an abort completes while the keepalive task was waiting for a pong and
\* a close frame had already been written
C27_Witness ==
    /\ Top("R") = "abort_return"
    /\ Top("K") = "k_cancelled"
    /\ Aborted
    /\ \E i \in DOMAIN wire : wire[i].opcode = OpPing
    /\ \E i \in DOMAIN wire : wire[i].opcode = OpClose

\* the timeout check has just decided to close
TimedOutNow ==
    /\ Top("K") = "close"
    /\ Head(pc["K"]).reason = "ping timed out"

\* the timeout check has let the connection live
PassedCheck == Top("K") = "k_sleep_next"

\* C28: the timeout check of a cycle closes the connection exactly when no
\* pong was processed between the sending of the cycle's ping and the
\* check; the pong flag is cleared as each ping is sent, so a pong
\* processed before the ping does not count
C28_TimeoutIffNoPongSincePing ==
    /\ conn.received_pong <=> counts.fresh_pongs > 0
    /\ TimedOutNow => counts.fresh_pongs = 0
    /\ (PassedCheck /\ PingTimeout > 0) => counts.fresh_pongs > 0

\* a pong processed before the ping was sent: the check closes
C28_Witness ==
    /\ TimedOutNow
    /\ counts.pongs = 1
    /\ counts.pings = 1
    /\ counts.fresh_pongs = 0
    /\ Top("R") = "read_header"

\* a pong processed after the ping: the check passes
C28_WitnessPassed ==
    /\ PassedCheck
    /\ PingTimeout > 0
    /\ counts.pongs = 1
    /\ counts.fresh_pongs = 1

\* frames written by the keepalive task
KeepalivePings == {i \in DOMAIN wire : wire[i].by = "K"}

\* C29: a connection has at most one keepalive task: start_pinging creates
\* one only when no reference is held and ping_interval > 0, a repeated
\* start_pinging leaves the existing task as it is, and with ping_interval
\* unset or 0 no task exists and no keepalive ping is ever sent
C29_AtMostOneKeepaliveTask ==
    /\ counts.extra_tasks = 0
    /\ counts.tasks > 0 => PingInterval > 0
    /\ conn.ping_coroutine => counts.tasks > 0
    /\ Top("K") # "k_none" => counts.tasks > 0
    /\ PingInterval <= 0 =>
          /\ counts.tasks = 0 /\ counts.pings = 0
          /\ Top("K") = "k_none"
          /\ KeepalivePings = {}

\* start_pinging was called twice, by the handshake and by the
\* application: one task was created, and it waits for its pong
C29_Witness ==
    /\ counts.calls = 1
    /\ counts.tasks = 1
    /\ counts.pings = 1
    /\ conn.ping_coroutine
    /\ Top("K") = "k_sleep_timeout"
    /\ Top("R") = "read_header"

\* C30: once a close() has completed, on its own or as the last step of
\* _abort, the keepalive task is cancelled and its reference cleared: no
\* keepalive task is left that could send a ping or close on a timeout
C30_NoKeepaliveAfterClose == counts.closed > 0 => KeepaliveCancelled

\* C30 on connections where start_pinging did not create the keepalive
\* task after a close() had already completed
C30_NoKeepaliveAfterCloseOnceStarted ==
    (counts.closed > 0 /\ counts.late_tasks = 0) => KeepaliveCancelled

\* the application's close() completed while the keepalive task waited for
\* a pong: the task is cancelled
C30_CancelledByClose ==
    /\ counts.closed > 0
    /\ counts.late_tasks = 0
    /\ counts.pings = 1
    /\ Top("K") = "k_cancelled"
    /\ Top("D") = "d_idle"
    /\ counts.calls = 1
    /\ ~conn.client_terminated

\* a keepalive task started after the application's close() completed
\* writes its ping behind the close frame
C30_PingAfterClose ==
    /\ counts.closed > 0
    /\ counts.late_tasks = 1
    /\ Top("K") = "k_ping_drain"
    /\ Len(wire) = 2
    /\ wire[1].opcode = OpClose /\ wire[1].by = "D"
    /\ wire[2].opcode = OpPing /\ wire[2].by = "K"

\* ---------------------------------------------------------------- C31
\* C31: once the server has written a close frame it writes no further
\* frame on the connection: a close frame on the wire is the last frame
C31_NothingAfterCloseFrame ==
    \A i \in 1..Len(wire) : wire[i].opcode = OpClose => i = Len(wire)

\* C31 for the frames written after a close() that wrote the close frame
\* has completed (server_terminated is set), on connections whose
\* keepalive task was not created after it
C31_NothingAfterCompletedClose ==
    [][(/\ counts.closed > 0
        /\ counts.late_tasks = 0
        /\ conn.server_terminated
        /\ \E i \in 1..Len(wire) : wire[i].opcode = OpClose) => wire' = wire]_vars

\* ---------------------------------------------------------------- C32
\* get() has ended: the read loop makes no further step
HandlingEnded == Top("R") \in {"r_done", "crashed"}

\* the postcondition C32 asks for
AbortedAndReported == Aborted /\ KeepaliveCancelled /\ handler.on_close_called

\* C32: a connection reset raised while the keepalive task writes its ping,
\* and an exception raised by on_message, each end the connection: once the
\* handling of the connection has ended after such a failure, both
\* termination flags are set, the stream is closed, the keepalive task is
\* cancelled and on_close has been invoked
C32_FailuresEndConnection ==
    (HandlingEnded /\ (counts.raised > 0 \/ Top("K") = "k_failed"))
        => AbortedAndReported

\* C32 for the reset in the keepalive task alone
C32_KeepaliveResetEndsConnection ==
    (HandlingEnded /\ counts.raised = 0 /\ Top("K") = "k_failed")
        => AbortedAndReported

\* the keepalive task ended by a reset of its ping, and the read loop ended
\* the connection
C32_KeepaliveReset ==
    /\ HandlingEnded
    /\ counts.raised = 0
    /\ Top("K") = "k_failed"
    /\ writer.peer = "reset"
    /\ counts.on_close = 1

\* ---------------------------------------------------------------- C33
\* _wire_bytes_out: _write_frame adds the length of every frame it hands to
\* the stream, header and payload, in the step that writes it
RECURSIVE WireBytes(_)
WireBytes(w) ==
    IF w = <<>> THEN 0
    ELSE LET n == Len(Head(w).data) + ReasonLen(Head(w).reason)
         IN  1 + Len(EncodeLength(n, 0)) + n + WireBytes(Tail(w))

WireBytesOut == WireBytes(wire)

\* C33: a ping or close of the application that _write_frame refuses (the
\* payload exceeds 125 bytes) has written nothing, and the connection is
\* aborted
C33_RefusedControlAborts ==
    call.result = "ValueError" => (call.written = 0 /\ Aborted)

\* C33 without the abort: the step in which the write is refused leaves the
\* stream and the wire-bytes-out counter as they were
C33_RefusedControlWritesNothing ==
    [][(call'.result = "ValueError" /\ call.result # "ValueError")
          => (wire' = wire /\ WireBytesOut' = WireBytesOut)]_vars

\* a ping with 126 bytes of data was refused on an open connection, which
\* stays open
C33_PingRefused ==
    /\ call.kind = "ping"
    /\ call.result = "ValueError"
    /\ ~IsClosing
    /\ wire = <<>>
    /\ Top("R") = "read_header"

\* a close with a reason of 124 bytes was refused: server_terminated is not
\* set and the handler keeps its connection
C33_CloseRefused ==
    /\ call.kind = "close"
    /\ call.result = "ValueError"
    /\ ~conn.server_terminated
    /\ handler.ws_connection
    /\ wire = <<>>

\* a ping with 125 bytes of data is written
C33_PingWritten ==
    /\ call.kind = "ping"
    /\ call.result = "returned"
    /\ Len(wire) = 1
    /\ Len(wire[1].data) = 125
    /\ WireBytesOut = 127

\* ---------------------------------------------------------------- C34
\* the parameters of the offer _accept_connection takes, as the client
\* wrote them
OfferedParameters(r) == r.extensions[FirstDeflate(r)].params

\* the numbers the offer gives for the two window sizes
OfferedWindowBits(r) ==
    {WindowBitsOf(p.v) :
        p \in {q \in OfferedParameters(r) :
                  /\ q.k \in {"server_max_window_bits", "client_max_window_bits"}
                  /\ WindowBitsOf(q.v) # NoneNum}}

\* compression is enabled and the offer names a parameter outside the four
\* allowed keys or a window size outside 8..15
RefusableOffer(r) ==
    /\ Negotiates(r)
    /\ \/ \E p \in OfferedParameters(r) : p.k \notin AllowedKeys
       \/ \E b \in OfferedWindowBits(r) : b \notin 8..15

\* the same, counting a parameter outside the allowed keys only if it has a
\* value
RefusableOfferWithValues(r) ==
    /\ Negotiates(r)
    /\ \/ \E p \in OfferedParameters(r) : p.k \notin AllowedKeys /\ p.v # "None"
       \/ \E b \in OfferedWindowBits(r) : b \notin 8..15

\* the handshake ended in abort
HandshakeAborted ==
    /\ writer.status = 0
    /\ writer.responses = 0
    /\ counts.tasks = 0
    /\ handler.open = "no"
    /\ Top("R") \notin {"accept_drain", "open"}
    /\ HandlingEnded => Aborted

\* C34: with compression enabled, an offer with a parameter outside the four
\* allowed keys or a window size outside 8..15 ends the handshake in abort:
\* no 101 response, no keepalive task, no open(), the stream closed
C34_BadOfferAborts == RefusableOffer(request) => HandshakeAborted

\* C34 for offers whose unknown parameter has a value
C34_BadOfferWithValueAborts == RefusableOfferWithValues(request) => HandshakeAborted

\* an offer with unknown_parameter=1 was refused and the abort is complete
C34_Refused ==
    /\ RefusableOfferWithValues(request)
    /\ \E p \in OfferedParameters(request) : p.k \notin AllowedKeys
    /\ OfferedWindowBits(request) \subseteq 8..15
    /\ HandlingEnded
    /\ Aborted

\* an offer with client_max_window_bits=7 was refused for its window size
C34_RefusedWindow ==
    /\ RefusableOfferWithValues(request)
    /\ \A p \in OfferedParameters(request) : p.k \in AllowedKeys
    /\ 7 \in OfferedWindowBits(request)
    /\ HandlingEnded
    /\ Aborted

\* an offer with an unknown parameter that has no value was accepted with
\* compression
C34_AcceptedUnknown ==
    /\ RefusableOffer(request)
    /\ writer.status = 101
    /\ params.compression

\* ---------------------------------------------------------------- C35
\* the handshake has created the compressor and the decompressor for the
\* request
CompressorsCreated ==
    writer.status = 101 /\ params.compression /\ request # NoRequest

\* the window size the offer gives under key, 15 without one
OfferedBits(r, key) ==
    LET given == {p \in OfferedParameters(r) : p.k = key /\ p.v # "None"}
    IN  IF given = {} THEN 15 ELSE WindowBitsOf((CHOOSE p \in given : TRUE).v)

OfferContains(r, key) == \E p \in OfferedParameters(r) : p.k = key

\* C35: the compressor has the window size of server_max_window_bits and
\* the decompressor that of client_max_window_bits (15 where the offer gives
\* none), and each context is persistent exactly when the offer does not
\* contain server_no_context_takeover / client_no_context_takeover
C35_ContextsAsOffered ==
    CompressorsCreated =>
        /\ CreatedCompressor(request).max_wbits =
               OfferedBits(request, "server_max_window_bits")
        /\ CreatedDecompressor(request).max_wbits =
               OfferedBits(request, "client_max_window_bits")
        /\ CreatedCompressor(request).persistent =
               ~OfferContains(request, "server_no_context_takeover")
        /\ CreatedDecompressor(request).persistent =
               ~OfferContains(request, "client_no_context_takeover")

\* C35 with "contains" read as "contains with a value"
C35_ContextsAsOfferedWithValues ==
    CompressorsCreated =>
        /\ CreatedCompressor(request).max_wbits =
               OfferedBits(request, "server_max_window_bits")
        /\ CreatedDecompressor(request).max_wbits =
               OfferedBits(request, "client_max_window_bits")
        /\ CreatedCompressor(request).persistent =
               ~\E p \in OfferedParameters(request) :
                    p.k = "server_no_context_takeover" /\ p.v # "None"
        /\ CreatedDecompressor(request).persistent =
               ~\E p \in OfferedParameters(request) :
                    p.k = "client_no_context_takeover" /\ p.v # "None"

\* the two contexts differ: the decompressor has a window of 10 bits, the
\* compressor one of 15 bits and no context takeover
C35_DifferentContexts ==
    /\ CompressorsCreated
    /\ CreatedDecompressor(request).max_wbits = 10
    /\ CreatedDecompressor(request).persistent
    /\ CreatedCompressor(request).max_wbits = 15
    /\ ~CreatedCompressor(request).persistent

\* the offer contains server_no_context_takeover, as RFC 7692 writes it,
\* and the compressor keeps its context
C35_TakeoverKept ==
    /\ CompressorsCreated
    /\ OfferContains(request, "server_no_context_takeover")
    /\ CreatedCompressor(request).persistent

\* ---------------------------------------------------------------- C36
BufferPresent == conn.fragmented_message_buffer # NoneBytes

\* C36: the fragment buffer is present exactly while a multi-frame message
\* of the peer is in progress on a connection that has not been aborted: a
\* non-final data frame creates it, the final continuation frame clears
\* it, and so does an abort
C36_BufferWhileInProgress == BufferPresent <=> (gmsg.active /\ ~Aborted)

\* C36 on connections that have not been aborted
C36_BufferWhileInProgressUnlessAborted ==
    ~Aborted => (BufferPresent <=> gmsg.active)

\* the final continuation frame has completed a message of two fragments
\* and the buffer is gone
C36_Completed ==
    /\ ~Aborted
    /\ ~BufferPresent
    /\ obs.role = "last"
    /\ obs.payload_read
    /\ Len(delivered) = 1

\* the connection was aborted in the middle of a fragmented message and
\* the buffer is still there after _abort has returned
C36_KeptAfterAbort ==
    /\ Aborted
    /\ BufferPresent
    /\ gmsg.active
    /\ Top("R") = "r_done"

\* ---------------------------------------------------------------- C37
\* C37: the fragment buffer never holds more than max_message_size bytes,
\* and no payload passed to on_message, decompressed where the message was
\* compressed, is longer than max_message_size
C37_SizesWithinLimit ==
    /\ BufferedLen <= MaxMessageSize
    /\ \A i \in 1..Len(delivered) : Len(delivered[i].data) <= MaxMessageSize

\* the buffer holds exactly max_message_size bytes of a message in progress
C37_Witness ==
    /\ BufferPresent
    /\ BufferedLen = MaxMessageSize
    /\ gmsg.active
    /\ Top("R") = "read_header"

\* a compressed message was inflated and passed to on_message
C37_DeliveredInflated ==
    /\ Len(delivered) = 1
    /\ params.compression
    /\ obs.rsv1
    /\ obs.role = "single"
    /\ Len(delivered[1].data) = 2

\* ---------------------------------------------------------------- C38
\* C38: no step invokes on_message on a connection whose client_terminated
\* flag is set, whether a close frame set it or an abort, by the read loop
\* itself or by another task while the read loop waited for bytes
C38_NoMessageAfterTermination ==
    [][conn.client_terminated => Len(delivered') = Len(delivered)]_vars

\* a message was delivered, then the peer's close frame set
\* client_terminated; the peer's side of the stream is still open, get() has
\* ended and no further frame was read
C38_Witness ==
    /\ conn.client_terminated
    /\ writer.peer = "open"
    /\ Len(delivered) = 1
    /\ counts.frames = 2
    /\ Len(wire) = 1 /\ wire[1].opcode = OpClose /\ wire[1].by = "R"
    /\ Top("R") = "r_done"

\* the application's close() aborted the connection while the read loop
\* waited for the header of a frame
C38_AbortedWhileReading ==
    /\ conn.client_terminated
    /\ Top("R") \in ReadLabels
    /\ Top("D") \notin {"d_idle"}
    /\ InAbortClose("D") \/ Top("D") = "abort_wait_closed"

\* ---------------------------------------------------------------- C39
\* C39: client_terminated and server_terminated never go back to false,
\* and is_closing(), once true, stays true
C39_TerminationMonotonic ==
    [][/\ conn.client_terminated => conn'.client_terminated
       /\ conn.server_terminated => conn'.server_terminated
       /\ IsClosing => IsClosing']_vars

\* the application has closed, only server_terminated is set, and the read
\* loop has since processed a frame of the peer and waits for the next
C39_Witness ==
    /\ conn.server_terminated
    /\ ~conn.client_terminated
    /\ ~writer.closing
    /\ IsClosing
    /\ counts.closed > 0
    /\ counts.frames = 1
    /\ ~obs.busy
    /\ Top("R") = "read_header"

\* ---------------------------------------------------------------- C40
\* the effective timeout the claim describes for the configured values
TimeoutAsClaimed ==
    IF params.ping_timeout = NoneNum THEN PingInterval
    ELSE IF params.ping_timeout > PingInterval THEN PingInterval
    ELSE params.ping_timeout

\* C40: under every setting the effective ping_timeout is at most the
\* effective ping_interval: the interval where the timeout is unset or
\* greater, the configured timeout otherwise; an unset interval is 0
C40_TimeoutWithinInterval ==
    /\ PingInterval = (IF params.ping_interval = NoneNum THEN 0
                       ELSE params.ping_interval)
    /\ PingTimeout <= PingInterval
    /\ PingTimeout = TimeoutAsClaimed

\* C40 for the settings under which a keepalive task runs
C40_TimeoutWithinIntervalWhenPinging ==
    PingInterval > 0 => (PingTimeout <= PingInterval /\ PingTimeout = TimeoutAsClaimed)

\* the keepalive task waits for a pong under a timeout that was reduced
\* to the interval
C40_Clamped ==
    /\ params.ping_interval = 1
    /\ params.ping_timeout = 2
    /\ PingTimeout = 1
    /\ Top("K") = "k_sleep_timeout"

\* a timeout configured without an interval is left above the interval on
\* a connection that has been accepted
C40_TimeoutAboveInterval ==
    /\ PingInterval = 0
    /\ PingTimeout = 2
    /\ Top("R") = "read_header"

====
